---- MODULE Spec2Model ----
(***************************************************************************)
(* Model of the blog API server: the domain layer (internal/domain),       *)
(* the in-memory store (internal/store), the codec helpers, the handlers,  *)
(* the router and the panic-recovery middleware (internal/api).            *)
(***************************************************************************)
EXTENDS Integers, Sequences, FiniteSets, TLC

(***************************************************************************)
(* Strings.  A Go string is kept run-length encoded: a sequence of runs    *)
(* [c |-> character, n |-> repeat count], adjacent runs of different       *)
(* characters.  "MB3" stands for one character whose UTF-8 encoding takes  *)
(* three bytes (any kana or kanji); every other character takes one.       *)
(***************************************************************************)
Run(ch, k) == [c |-> ch, n |-> k]

Str(ch, k) == <<Run(ch, k)>>

EmptyStr == <<>>

Width(ch) == IF ch = "MB3" THEN 3 ELSE 1

IsSpace(ch) == ch = " "

RECURSIVE ByteLen(_)
\* len(s) of Go: the number of BYTES of the string
ByteLen(s) == IF s = <<>> THEN 0 ELSE Head(s).n * Width(Head(s).c) + ByteLen(Tail(s))

RECURSIVE CharLen(_)
\* the number of characters (runes) of the string
CharLen(s) == IF s = <<>> THEN 0 ELSE Head(s).n + CharLen(Tail(s))

RECURSIVE TrimLeft(_)
TrimLeft(s) == IF s = <<>> THEN s
               ELSE IF IsSpace(Head(s).c) THEN TrimLeft(Tail(s)) ELSE s

RECURSIVE TrimRight(_)
TrimRight(s) == IF s = <<>> THEN s
                ELSE IF IsSpace(s[Len(s)].c) THEN TrimRight(SubSeq(s, 1, Len(s) - 1)) ELSE s

\* strings.TrimSpace
TrimSpace(s) == TrimRight(TrimLeft(s))

(***************************************************************************)
(* Domain layer (internal/domain/blog.go): limits, validation, factory,    *)
(* update.                                                                 *)
(***************************************************************************)
TitleMax == 100

ContentMax == 5000

AuthorMax == 50

\* an optional string (*string of Go): nil, or a pointer to a value
Nil == [set |-> FALSE, v |-> <<>>]

Some(s) == [set |-> TRUE, v |-> s]

\* a problems map is a function from field names to messages
NoProblems == [f \in {} |-> ""]

Put(m, k, v) == [x \in DOMAIN m \cup {k} |-> IF x = k THEN v ELSE m[x]]

PutIf(cond, m, k, v) == IF cond THEN Put(m, k, v) ELSE m

\* a CreateBlogRequest.Valid without the length checks
CreateValid_NoLimits(r) ==
    LET p1 == PutIf(TrimSpace(r.Title) = EmptyStr, NoProblems, "title", "title is required")
        p3 == PutIf(TrimSpace(r.Content) = EmptyStr, p1, "content", "content is required")
        p5 == PutIf(TrimSpace(r.Author) = EmptyStr, p3, "author", "author is required")
    IN  p5

\* CreateBlogRequest.Valid
CreateValid(r) ==
    LET p1 == PutIf(TrimSpace(r.Title) = EmptyStr, NoProblems, "title", "title is required")
        p2 == PutIf(ByteLen(r.Title) > TitleMax, p1, "title", "title must be less than 100 characters")
        p3 == PutIf(TrimSpace(r.Content) = EmptyStr, p2, "content", "content is required")
        p4 == PutIf(ByteLen(r.Content) > ContentMax, p3, "content", "content must be less than 5000 characters")
        p5 == PutIf(TrimSpace(r.Author) = EmptyStr, p4, "author", "author is required")
        p6 == PutIf(ByteLen(r.Author) > AuthorMax, p5, "author", "author must be less than 50 characters")
    IN  p6

\* UpdateBlogRequest.Valid: only the fields that are present are checked
UpdateValid(r) ==
    LET p1 == PutIf(r.Title.set /\ ByteLen(r.Title.v) > TitleMax, NoProblems,
                    "title", "title must be less than 100 characters")
        p2 == PutIf(r.Title.set /\ TrimSpace(r.Title.v) = EmptyStr, p1,
                    "title", "title cannot be empty")
        p3 == PutIf(r.Content.set /\ ByteLen(r.Content.v) > ContentMax, p2,
                    "content", "content must be less than 5000 characters")
        p4 == PutIf(r.Content.set /\ TrimSpace(r.Content.v) = EmptyStr, p3,
                    "content", "content cannot be empty")
    IN  p4

\* uuid.New().String(): the k-th identifier handed out, never the empty string
Uuid(k) == "u" \o ToString(k)

\* a NewBlog that stores the fields as they came
NewBlog_NoTrim(req, id, t) ==
    [ID |-> id,
     Title |-> req.Title,
     Content |-> req.Content,
     Author |-> req.Author,
     CreatedAt |-> t,
     UpdatedAt |-> t]

\* NewBlog, with the identifier and the clock reading it draws made explicit
NewBlog(req, id, t) ==
    [ID |-> id,
     Title |-> TrimSpace(req.Title),
     Content |-> TrimSpace(req.Content),
     Author |-> TrimSpace(req.Author),
     CreatedAt |-> t,
     UpdatedAt |-> t]

\* a Blog.Update that builds the blog anew from the request
BlogUpdate_Rebuilds(b, req, t) ==
    [ID |-> b.ID,
     Title |-> IF req.Title.set THEN TrimSpace(req.Title.v) ELSE b.Title,
     Content |-> IF req.Content.set THEN TrimSpace(req.Content.v) ELSE b.Content,
     Author |-> EmptyStr,
     CreatedAt |-> t,
     UpdatedAt |-> t]

\* a Blog.Update that stamps the wrong field
BlogUpdate_StampsCreated(b, req, t) ==
    [b EXCEPT !.Title = IF req.Title.set THEN TrimSpace(req.Title.v) ELSE @,
              !.Content = IF req.Content.set THEN TrimSpace(req.Content.v) ELSE @,
              !.CreatedAt = t]

\* a Blog.Update that assigns both fields whether or not the request has them
BlogUpdate_Unconditional(b, req, t) ==
    [b EXCEPT !.Title = TrimSpace(req.Title.v),
              !.Content = TrimSpace(req.Content.v),
              !.UpdatedAt = t]

\* Blog.Update, with the clock reading made explicit
BlogUpdate(b, req, t) ==
    [b EXCEPT !.Title = IF req.Title.set THEN TrimSpace(req.Title.v) ELSE @,
              !.Content = IF req.Content.set THEN TrimSpace(req.Content.v) ELSE @,
              !.UpdatedAt = t]

(***************************************************************************)
(* Store (internal/store/store.go).  The map holds pointers: heap maps an  *)
(* address to the Blog value at it, blogs maps an id to an address.  Each  *)
(* operation is one critical section of the RWMutex and yields the heap    *)
(* and map after it, what it returns, and its error.                       *)
(***************************************************************************)
NullPtr == 0

\* a fresh object holding v
Alloc(h) == Cardinality(DOMAIN h) + 1

WithNew(h, v) == Put(h, Alloc(h), v)

\* MemoryBlogStore.Create: stores the caller's pointer under the blog's own id
MemCreate(h, m, p) ==
    [heap |-> h, blogs |-> Put(m, h[p].ID, p), err |-> "nil"]

\* a GetByID that looks the blog up by ranging over the map and stops at the
\* first entry
MemGetByID_FirstEntry(h, m, id) ==
    IF id \notin DOMAIN m
    THEN [heap |-> h, blogs |-> m, ptr |-> NullPtr, err |-> "ErrNotFound"]
    ELSE LET first == CHOOSE x \in DOMAIN m : TRUE
         IN  [heap |-> WithNew(h, h[m[first]]), blogs |-> m, ptr |-> Alloc(h), err |-> "nil"]

\* MemoryBlogStore.GetByID: a copy of the stored blog, or ErrNotFound
MemGetByID(h, m, id) ==
    IF id \notin DOMAIN m
    THEN [heap |-> h, blogs |-> m, ptr |-> NullPtr, err |-> "ErrNotFound"]
    ELSE [heap |-> WithNew(h, h[m[id]]), blogs |-> m, ptr |-> Alloc(h), err |-> "nil"]

\* the orders in which a range over the map can visit its keys
RECURSIVE Orders(_)
Orders(S) == IF S = {} THEN {<<>>}
             ELSE UNION {{<<x>> \o o : o \in Orders(S \ {x})} : x \in S}

RECURSIVE CopyEach(_, _, _)
\* the loop body of GetAll and GetByAuthor: append a copy of each blog visited
CopyEach(h, m, ids) ==
    IF ids = <<>> THEN [heap |-> h, ptrs |-> <<>>]
    ELSE LET h1 == WithNew(h, h[m[Head(ids)]])
             rest == CopyEach(h1, m, Tail(ids))
         IN  [heap |-> rest.heap, ptrs |-> <<Alloc(h)>> \o rest.ptrs]

\* a GetAll that appends the stored pointers themselves
MemGetAll_NoCopy(h, m, o) ==
    [heap |-> h, blogs |-> m, ptrs |-> [i \in DOMAIN o |-> m[o[i]]], isNil |-> FALSE, err |-> "nil"]

\* MemoryBlogStore.GetAll, visiting the map in the order o; the slice is made
\* with make, so it is never nil
MemGetAll(h, m, o) ==
    LET c == CopyEach(h, m, o)
    IN  [heap |-> c.heap, blogs |-> m, ptrs |-> c.ptrs, isNil |-> FALSE, err |-> "nil"]

RECURSIVE Filter(_, _, _, _)
Filter(h, m, o, author) ==
    IF o = <<>> THEN <<>>
    ELSE (IF h[m[Head(o)]].Author = author THEN <<Head(o)>> ELSE <<>>)
         \o Filter(h, m, Tail(o), author)

\* a GetByAuthor that does not compare the author
MemGetByAuthor_NoFilter(h, m, o, author) ==
    LET c == CopyEach(h, m, o)
    IN  [heap |-> c.heap, blogs |-> m, ptrs |-> c.ptrs, isNil |-> c.ptrs = <<>>, err |-> "nil"]

\* MemoryBlogStore.GetByAuthor, visiting the map in the order o; the slice is
\* declared with var and only grown by append, so it is nil when nothing matches
MemGetByAuthor(h, m, o, author) ==
    LET c == CopyEach(h, m, Filter(h, m, o, author))
    IN  [heap |-> c.heap, blogs |-> m, ptrs |-> c.ptrs, isNil |-> c.ptrs = <<>>, err |-> "nil"]

\* an Update that stores the blog whether or not the id is there
MemUpdate_Upserts(h, m, id, p) ==
    [heap |-> h, blogs |-> Put(m, id, p), err |-> "nil"]

\* MemoryBlogStore.Update: replaces the pointer stored under id by the caller's
MemUpdate(h, m, id, p) ==
    IF id \notin DOMAIN m
    THEN [heap |-> h, blogs |-> m, err |-> "ErrNotFound"]
    ELSE [heap |-> h, blogs |-> Put(m, id, p), err |-> "nil"]

\* a Delete that empties the map
MemDelete_Clears(h, m, id) ==
    IF id \notin DOMAIN m
    THEN [heap |-> h, blogs |-> m, err |-> "ErrNotFound"]
    ELSE [heap |-> h, blogs |-> [x \in {} |-> NullPtr], err |-> "nil"]

\* a Delete that does not report a missing id
MemDelete_Silent(h, m, id) ==
    [heap |-> h, blogs |-> [x \in DOMAIN m \ {id} |-> m[x]], err |-> "nil"]

\* MemoryBlogStore.Delete
MemDelete(h, m, id) ==
    IF id \notin DOMAIN m
    THEN [heap |-> h, blogs |-> m, err |-> "ErrNotFound"]
    ELSE [heap |-> h, blogs |-> [x \in DOMAIN m \ {id} |-> m[x]], err |-> "nil"]

(***************************************************************************)
(* Bounds of the model and the inputs the requests are drawn from.         *)
(***************************************************************************)
\* the number of blogs that are ever created
MaxCreates == 2

\* the last reading of the clock
MaxClock == 1

WorkerSeq == <<"w1", "w2">>

Workers == {WorkerSeq[i] : i \in DOMAIN WorkerSeq}

AllIds == {Uuid(k) : k \in 1..MaxCreates}

Sp == Run(" ", 1)

ValidTitle == <<Sp, Run("t", 1), Sp>>

ValidContent == <<Sp, Run("c", 1), Sp>>

ValidAuthors == {Str("A", 1), <<Sp, Run("a", 1)>>}

BlankTitle == Str(" ", 2)

BlankContent == EmptyStr

BlankAuthor == Str(" ", 1)

\* 34 characters that take 102 bytes
MultiByteTitle == Str("MB3", 34)

\* a request body: not decodable (malformed JSON, a wrong field type, no body
\* at all), or a JSON object with some of the keys title, content, author
Malformed == [ok |-> FALSE, title |-> Nil, content |-> Nil, author |-> Nil]

Json(t, c, a) == [ok |-> TRUE, title |-> t, content |-> c, author |-> a]

NoBody == Malformed

\* the valid payloads; every choice of blank fields; each field alone one
\* character over its limit; a title of 34 multi-byte characters; every field
\* exactly at its limit; a title at its limit behind a space
CreateBodies ==
    {Malformed, Json(Nil, Nil, Nil)}
    \cup {Json(Some(ValidTitle), Some(ValidContent), Some(a)) : a \in ValidAuthors}
    \cup {Json(Some(t), Some(c), Some(a)) :
            t \in {ValidTitle, BlankTitle}, c \in {ValidContent, BlankContent},
            a \in {Str("A", 1), BlankAuthor}}
    \cup {Json(Some(Str("x", TitleMax + 1)), Some(ValidContent), Some(Str("A", 1))),
          Json(Some(ValidTitle), Some(Str("x", ContentMax + 1)), Some(Str("A", 1))),
          Json(Some(ValidTitle), Some(ValidContent), Some(Str("x", AuthorMax + 1))),
          Json(Some(MultiByteTitle), Some(ValidContent), Some(Str("A", 1))),
          Json(Some(MultiByteTitle), Some(BlankContent), Some(Str("A", 1))),
          Json(Some(Str("x", TitleMax)), Some(Str("y", ContentMax)), Some(Str("z", AuthorMax))),
          Json(Some(<<Sp, Run("x", TitleMax)>>), Some(ValidContent), Some(Str("A", 1)))}

UpdateTitles == {Nil, Some(<<Sp, Run("u", 1)>>), Some(BlankTitle)}

UpdateContents == {Nil, Some(<<Run("d", 1), Sp>>), Some(BlankContent)}

\* every choice of an absent, a valid and a blank title and content; an overlong
\* title; a body with a key the update request does not have
UpdateBodies ==
    {Malformed, Json(Nil, Nil, Some(Str("z", 1))), Json(Some(Str("x", TitleMax + 1)), Nil, Nil)}
    \cup {Json(t, c, Nil) : t \in UpdateTitles, c \in UpdateContents}

Methods == {"GET", "POST", "PUT", "DELETE", "PATCH", "HEAD", "OPTIONS"}

BlogsPath == <<"api", "v1", "blogs">>

ItemPaths == {BlogsPath \o <<id>> : id \in AllIds}

BadItemPaths == {BlogsPath \o <<"">>, BlogsPath \o <<"u1", "comments">>}

OtherPaths == {<<"healthz">>, <<"readyz">>, <<"metrics">>, <<"api", "v1">>}

AuthorQueries == {Nil, Some(EmptyStr), Some(Str("A", 1)), Some(Str("a", 1)), Some(Str("q", 1))}

Request(m, p, q, b) == [method |-> m, path |-> p, author |-> q, body |-> b]

PostRequests == {Request("POST", BlogsPath, Nil, b) : b \in CreateBodies}

ListRequests == {Request("GET", BlogsPath, q, NoBody) : q \in AuthorQueries}

\* the body of a PUT is read after the lookup: it is drawn in the step that
\* decodes it
BodilessRequests ==
    {Request(m, p, Nil, NoBody) : m \in Methods, p \in {BlogsPath} \cup ItemPaths}
    \cup {Request(m, p, Nil, NoBody) : m \in Methods, p \in BadItemPaths}
    \cup {Request(m, p, Nil, NoBody) : m \in {"GET", "POST"}, p \in OtherPaths}

\* a PUT that carries a body: one that validates and one that does not (a PUT
\* without a body, or with a malformed one, is among the bodiless requests)
PutRequests ==
    {Request("PUT", p, Nil, b) : p \in ItemPaths,
        b \in {Json(Some(<<Sp, Run("u", 1)>>), Nil, Nil), Json(Some(BlankTitle), Nil, Nil)}}

Requests == PostRequests \cup ListRequests \cup BodilessRequests \cup PutRequests

(***************************************************************************)
(* Codec layer and error envelope.                                         *)
(***************************************************************************)
JsonType == "application/json"

TextType == "text/plain; charset=utf-8"

\* what the client receives.  kind tells the shape of the body: "blog" (one
\* object), "list" (an array), "null", "error" (the envelope), "health",
\* "text" (plain text), "none" (no body)
Response(st, ct, k, e, pr, bs, by) ==
    [status |-> st, ctype |-> ct, kind |-> k, error |-> e, problems |-> pr, blogs |-> bs, by |-> by]

\* encode: Content-Type, status line, then the JSON of the value
EncodeError(st, msg, pr, by) == Response(st, JsonType, "error", msg, pr, <<>>, by)

EncodeBlog(st, b, by) == Response(st, JsonType, "blog", "", NoProblems, <<b>>, by)

\* a nil slice is encoded as null, any other slice as an array
EncodeBlogs(st, bs, isNil, by) ==
    Response(st, JsonType, IF isNil THEN "null" ELSE "list", "", NoProblems, bs, by)

\* http.Error: plain text, not JSON
HttpError(msg, st, by) == Response(st, TextType, "text", msg, NoProblems, <<>>, by)

\* a decodeValid that validates what the decoder left behind although the
\* decode failed
DecodeValidCreate_ValidatesAnyway(body) ==
    LET v == [Title |-> body.title.v, Content |-> body.content.v, Author |-> body.author.v]
        problems == CreateValid(v)
    IN  IF DOMAIN problems # {}
        THEN [v |-> v, problems |-> problems, probNil |-> FALSE, err |-> "invalid"]
        ELSE IF ~body.ok
        THEN [v |-> v, problems |-> NoProblems, probNil |-> TRUE, err |-> "decode json"]
        ELSE [v |-> v, problems |-> NoProblems, probNil |-> TRUE, err |-> "nil"]

\* decodeValid[CreateBlogRequest]: a key that is missing leaves the zero value
DecodeValidCreate(body) ==
    LET v == [Title |-> body.title.v, Content |-> body.content.v, Author |-> body.author.v]
        problems == CreateValid(v)
    IN  IF ~body.ok THEN [v |-> v, problems |-> NoProblems, probNil |-> TRUE, err |-> "decode json"]
        ELSE IF DOMAIN problems # {}
        THEN [v |-> v, problems |-> problems, probNil |-> FALSE, err |-> "invalid"]
        ELSE [v |-> v, problems |-> NoProblems, probNil |-> TRUE, err |-> "nil"]

\* decodeValid[UpdateBlogRequest]: a key that is missing leaves a nil pointer,
\* and keys the struct does not have (author, id, ...) are dropped
DecodeValidUpdate(body) ==
    LET v == [Title |-> body.title, Content |-> body.content]
        problems == UpdateValid(v)
    IN  IF ~body.ok THEN [v |-> v, problems |-> NoProblems, probNil |-> TRUE, err |-> "decode json"]
        ELSE IF DOMAIN problems # {}
        THEN [v |-> v, problems |-> problems, probNil |-> FALSE, err |-> "invalid"]
        ELSE [v |-> v, problems |-> NoProblems, probNil |-> TRUE, err |-> "nil"]

(***************************************************************************)
(* Router (addRoutes) and the method switch of handleBlogsByID.            *)
(***************************************************************************)
HasPrefix(p, pre) == Len(p) >= Len(pre) /\ SubSeq(p, 1, Len(pre)) = pre

\* strings.TrimPrefix(r.URL.Path, "/api/v1/blogs/"), as path segments
IdSegments(p) == SubSeq(p, Len(BlogsPath) + 1, Len(p))

\* path == "" || strings.Contains(path, "/")
InvalidId(segs) == segs = <<"">> \/ Len(segs) > 1

\* a handleBlogsByID that switches on the method before it looks at the id
Dispatch_MethodFirst(r) ==
    IF r.path \in {<<"healthz">>, <<"readyz">>} THEN "handleHealthz"
    ELSE IF r.path = BlogsPath
    THEN (IF r.method = "GET" THEN "handleBlogsGet"
          ELSE IF r.method = "POST" THEN "handleBlogsCreate"
          ELSE "blogsMethodNotAllowed")
    ELSE IF HasPrefix(r.path, BlogsPath) /\ Len(r.path) > Len(BlogsPath)
    THEN (IF r.method \notin {"GET", "PUT", "DELETE"} THEN "byIDMethodNotAllowed"
          ELSE IF InvalidId(IdSegments(r.path)) THEN "invalidBlogID"
          ELSE IF r.method = "GET" THEN "handleBlogGet"
          ELSE IF r.method = "PUT" THEN "handleBlogUpdate"
          ELSE "handleBlogDelete")
    ELSE "muxNotFound"

\* a collection wrapper that sends every method but GET to the create handler
Dispatch_GetOrCreate(r) ==
    IF r.path \in {<<"healthz">>, <<"readyz">>} THEN "handleHealthz"
    ELSE IF r.path = BlogsPath
    THEN (IF r.method = "GET" THEN "handleBlogsGet" ELSE "handleBlogsCreate")
    ELSE IF HasPrefix(r.path, BlogsPath) /\ Len(r.path) > Len(BlogsPath)
    THEN (IF InvalidId(IdSegments(r.path)) THEN "invalidBlogID"
          ELSE IF r.method = "GET" THEN "handleBlogGet"
          ELSE IF r.method = "PUT" THEN "handleBlogUpdate"
          ELSE IF r.method = "DELETE" THEN "handleBlogDelete"
          ELSE "byIDMethodNotAllowed")
    ELSE "muxNotFound"

\* the handler a request ends in
Dispatch(r) ==
    IF r.path \in {<<"healthz">>, <<"readyz">>} THEN "handleHealthz"
    ELSE IF r.path = BlogsPath
    THEN (IF r.method = "GET" THEN "handleBlogsGet"
          ELSE IF r.method = "POST" THEN "handleBlogsCreate"
          ELSE "blogsMethodNotAllowed")
    ELSE IF HasPrefix(r.path, BlogsPath) /\ Len(r.path) > Len(BlogsPath)
    THEN (IF InvalidId(IdSegments(r.path)) THEN "invalidBlogID"
          ELSE IF r.method = "GET" THEN "handleBlogGet"
          ELSE IF r.method = "PUT" THEN "handleBlogUpdate"
          ELSE IF r.method = "DELETE" THEN "handleBlogDelete"
          ELSE "byIDMethodNotAllowed")
    ELSE "muxNotFound"

IdOf(r) == IdSegments(r.path)[1]

(***************************************************************************)
(* http.ResponseWriter as the middleware and the handlers use it: the      *)
(* header map is sent with the first WriteHeader, a later WriteHeader is   *)
(* ignored, and a Write before any WriteHeader sends status 200 first.     *)
(***************************************************************************)
\* pending and sent are the Content-Type, cors and sentCors the
\* Access-Control-* entries, of the header map and of the header block sent
NoHeaders == [n \in {} |-> ""]

NewWriter ==
    [wroteHeader |-> FALSE, status |-> 0, pending |-> "", sent |-> "", body |-> <<>>,
     cors |-> NoHeaders, sentCors |-> NoHeaders]

\* w.Header().Set("Content-Type", ct)
RwSetHeader(w, ct) == [w EXCEPT !.pending = ct]

\* w.WriteHeader(st)
RwWriteHeader(w, st) ==
    IF w.wroteHeader THEN w
    ELSE [w EXCEPT !.wroteHeader = TRUE, !.status = st, !.sent = w.pending, !.sentCors = w.cors]

\* w.Write(chunk)
RwWrite(w, chunk) ==
    LET w1 == RwWriteHeader(w, 200)
    IN  [w1 EXCEPT !.body = Append(@, chunk)]

\* encode(w, r, status, v), v given by its JSON text
EncodeTo(w, status, json) == RwWrite(RwWriteHeader(RwSetHeader(w, JsonType), status), json)

\* json of ErrorResponse{Error: "Internal server error"}
InternalErrorJson == "{\"error\":\"Internal server error\"}"

\* the deferred function of panicRecoveryMiddleware once recover() has given
\* the panic value: the value goes to the log only
Recovered(w) ==
    EncodeTo(RwWriteHeader(RwSetHeader(w, JsonType), 500), 500, InternalErrorJson)

\* the header entries corsMiddleware sets
CorsHeaders ==
    ("Access-Control-Allow-Origin" :> "*")
    @@ ("Access-Control-Allow-Methods" :> "GET, POST, PUT, DELETE, OPTIONS")
    @@ ("Access-Control-Allow-Headers" :> "Content-Type, Authorization")

RwSetCors_OriginOnly(w) ==
    [w EXCEPT !.cors = ("Access-Control-Allow-Origin" :> "*")]

\* the three w.Header().Set calls of corsMiddleware
RwSetCors(w) == [w EXCEPT !.cors = CorsHeaders]

\* the responseWriter of loggingMiddleware around the writer w
WrapWriter(w) == [w |-> w, statusCode |-> 200]

\* responseWriter.WriteHeader: every call overwrites statusCode and is passed on
WrappedWriteHeader(x, st) == [w |-> RwWriteHeader(x.w, st), statusCode |-> st]

\* what a handler does to the wrapped writer x for the response resp: encode or
\* http.Error (Content-Type, status line, body), or the bare WriteHeader of
\* handleBlogDelete; headerOnly: only as far as the status line.  Header().Set
\* and Write are the embedded writer's
HandlerWrites(x, resp, headerOnly) ==
    LET h == IF resp.kind = "none" THEN WrappedWriteHeader(x, resp.status)
             ELSE WrappedWriteHeader([x EXCEPT !.w = RwSetHeader(@, resp.ctype)], resp.status)
    IN  IF headerOnly \/ resp.kind = "none" THEN h
        ELSE [h EXCEPT !.w = RwWrite(@, resp.kind)]

\* the deferred function of panicRecoveryMiddleware on the wrapped writer:
\* Header().Set, WriteHeader(500), then encode with its own WriteHeader(500)
WrappedRecovered(x) ==
    LET a == WrappedWriteHeader([x EXCEPT !.w = RwSetHeader(@, JsonType)], 500)
        b == WrappedWriteHeader([a EXCEPT !.w = RwSetHeader(@, JsonType)], 500)
    IN  [b EXCEPT !.w = RwWrite(@, InternalErrorJson)]

\* a line of the log: the message and, for "request completed", the status key
LogLine(msg, st) == [msg |-> msg, status |-> st]

(***************************************************************************)
(* sync.RWMutex as the store uses it: Lock waits until no goroutine holds  *)
(* the mutex, RLock waits until no writer holds it.                        *)
(***************************************************************************)
Unlocked == [writer |-> FALSE, readers |-> 0]

\* the goroutines that call the store at the same time
Goroutines == {"g1", "g2", "g3"}

StoreOps == {"Create", "GetByID", "GetAll", "GetByAuthor", "Update", "Delete"}

\* what each method of the store takes: s.mu.Lock() or s.mu.RLock()
LockKind_UpdateReads(op) == IF op \in {"Create", "Delete"} THEN "Lock" ELSE "RLock"

LockKind(op) == IF op \in {"Create", "Update", "Delete"} THEN "Lock" ELSE "RLock"

CanLock(m) == ~m.writer /\ m.readers = 0

CanRLock(m) == ~m.writer

Locked(m, kind) ==
    IF kind = "Lock" THEN [m EXCEPT !.writer = TRUE] ELSE [m EXCEPT !.readers = @ + 1]

\* a writer's return path that leaves the mutex locked
Released_WriterStays(m, kind) ==
    IF kind = "Lock" THEN m ELSE [m EXCEPT !.readers = @ - 1]

\* the deferred s.mu.Unlock() or s.mu.RUnlock()
Released(m, kind) ==
    IF kind = "Lock" THEN [m EXCEPT !.writer = FALSE] ELSE [m EXCEPT !.readers = @ - 1]

NoCall == [op |-> "", id |-> "", at |-> "out"]

(***************************************************************************)
(* State.                                                                  *)
(***************************************************************************)
VARIABLES
    heap,     \* address -> Blog value: the Blog objects that are reachable
    blogs,    \* MemoryBlogStore.blogs: id -> address
    now,      \* the reading time.Now() gives
    nextId,   \* how many identifiers uuid.New() has handed out
    pc,       \* per request goroutine: "idle", or "update" between the lookup
              \* and the decode of handleBlogUpdate
    loc,      \* per request goroutine: id and existingBlog of handleBlogUpdate
    last,     \* the response written last, and the store calls made for it
    fresh,    \* id -> the Blog answered by its POST, while no PUT or DELETE
              \* has written that id
    held,     \* the pointers a direct caller of the store holds
    rw,       \* the http.ResponseWriter of the request under panic recovery
    mw,       \* where that request is, and whether its handler panicked
    mu,       \* MemoryBlogStore.mu: whether a writer holds it, and how many readers
    cs,       \* per goroutine calling the store: the call and how far it has got
    chain,    \* the request in the middleware chain of NewServer: where it is,
              \* the status the logging wrapper has captured, the lines logged
    srv       \* Server.Start and its server goroutine: where each is, the
              \* channel serverErr, ctx.Done(), what Start has returned

vars == <<heap, blogs, now, nextId, pc, loc, last, fresh, held, rw, mw, mu, cs, chain, srv>>

NoLoc == [id |-> "", ptr |-> NullPtr]

\* no request has been served yet
NoRequest == Request("", <<>>, Nil, NoBody)

NoResponse == Response(0, "", "none", "", NoProblems, <<>>, "")

Exchange(req, resp, calls) == [req |-> req, resp |-> resp, calls |-> calls]

NoExchange == Exchange(NoRequest, NoResponse, <<>>)

IdSeq == [k \in 1..MaxCreates |-> Uuid(k)]

\* the pointers the program holds: the map's, in the order of the ids, then
\* the handlers' locals, then the ones a direct caller of the store holds
Roots(m, lp, hp) ==
    [i \in 1..MaxCreates |-> IF IdSeq[i] \in DOMAIN m THEN m[IdSeq[i]] ELSE NullPtr]
    \o [i \in DOMAIN WorkerSeq |-> lp[WorkerSeq[i]]]
    \o hp

RECURSIVE FirstSeen(_, _)
\* the distinct addresses of roots, in the order in which they first occur
FirstSeen(roots, seen) ==
    IF roots = <<>> THEN seen
    ELSE FirstSeen(Tail(roots),
                   IF Head(roots) = NullPtr \/ \E i \in DOMAIN seen : seen[i] = Head(roots)
                   THEN seen ELSE Append(seen, Head(roots)))

Renumber(order, a) == IF a = NullPtr THEN NullPtr ELSE CHOOSE i \in DOMAIN order : order[i] = a

Renumbered(h, m, lp, hp, order) ==
    [heap |-> [r \in DOMAIN order |-> h[order[r]]],
     blogs |-> [id \in DOMAIN m |-> Renumber(order, m[id])],
     lp |-> [w \in DOMAIN lp |-> Renumber(order, lp[w])],
     hp |-> [i \in DOMAIN hp |-> Renumber(order, hp[i])]]

\* The objects no pointer reaches are collected, and the reachable ones are
\* numbered in the order the roots reach them, so that a state does not depend
\* on the addresses the allocator picked.
Canon(h, m, lp, hp) == Renumbered(h, m, lp, hp, FirstSeen(Roots(m, lp, hp), <<>>))

HeldPtrs == [i \in DOMAIN held |-> held[i].ptr]

\* the state of the store and of the locals after a handler step
Commit(h, m, newloc) ==
    LET c == Canon(h, m, [w \in Workers |-> newloc[w].ptr], HeldPtrs)
    IN  /\ heap' = c.heap
        /\ blogs' = c.blogs
        /\ loc' = [w \in Workers |-> [newloc[w] EXCEPT !.ptr = c.lp[w]]]
        /\ held' = [i \in DOMAIN held |-> [held[i] EXCEPT !.ptr = c.hp[i]]]

Values(h, ptrs) == [i \in DOMAIN ptrs |-> h[ptrs[i]]]

Drop(f, k) == [x \in DOMAIN f \ {k} |-> f[x]]

\* the capacity of serverErr: make(chan error, 1)
ChanCap == 1

\* the Server as NewServer returns it: Start has not been called
NotStarted ==
    [start |-> "idle", serve |-> "none", serverErr |-> <<>>, sending |-> "",
     done |-> FALSE, closing |-> FALSE, inflight |-> 0,
     sent |-> 0, early |-> FALSE, returns |-> <<>>]

\* no request has entered the chain
NoChain == [pc |-> "idle", req |-> NoRequest, statusCode |-> 0, log |-> <<>>, panicked |-> FALSE]

Init ==
    /\ heap = <<>>
    /\ blogs = [id \in {} |-> NullPtr]
    /\ now = 0
    /\ nextId = 0
    /\ pc = [w \in Workers |-> "idle"]
    /\ loc = [w \in Workers |-> NoLoc]
    /\ last = NoExchange
    /\ fresh = [id \in {} |-> 0]
    /\ held = <<>>
    /\ rw = NewWriter
    /\ mw = [pc |-> "idle", panicked |-> FALSE, value |-> ""]
    /\ mu = Unlocked
    /\ cs = [g \in Goroutines |-> NoCall]
    /\ chain = NoChain
    /\ srv = NotStarted

\* no response is waiting to be sent: the server takes up the next request
Sent == last.resp = NoResponse

(***************************************************************************)
(* Handlers.  XStep(w, r) is goroutine w serving request r.                *)
(***************************************************************************)
\* handleHealthz
HealthzStep(w, r) ==
    /\ pc[w] = "idle"
    /\ Sent
    /\ Dispatch(r) = "handleHealthz"
    /\ last' = Exchange(r, Response(200, JsonType, "health", "", NoProblems, <<>>, "handleHealthz"), <<>>)
    /\ UNCHANGED <<heap, blogs, now, nextId, pc, loc, fresh, held>>
    /\ UNCHANGED <<rw, mw, mu, cs, chain, srv>>

\* the response of handleBlogsCreate to a body that does not decode or validate
CreateRejection(d) ==
    IF ~d.probNil
    THEN EncodeError(400, "Validation failed", d.problems, "handleBlogsCreate")
    ELSE EncodeError(400, "Invalid request body", NoProblems, "handleBlogsCreate")

\* handleBlogsCreate
CreateStep(w, r) ==
    /\ pc[w] = "idle"
    /\ Sent
    /\ Dispatch(r) = "handleBlogsCreate"
    /\ LET d == DecodeValidCreate(r.body)
       IN  IF d.err # "nil"
           THEN /\ last' = Exchange(r, CreateRejection(d), <<>>)
                /\ UNCHANGED <<heap, blogs, now, nextId, pc, loc, fresh, held>>
           ELSE /\ nextId < MaxCreates
                /\ LET blog == NewBlog(d.v, Uuid(nextId + 1), now)
                       p == Alloc(heap)
                       s == MemCreate(WithNew(heap, blog), blogs, p)
                   IN  /\ Commit(s.heap, s.blogs, loc)
                       /\ last' = Exchange(r,
                             IF s.err # "nil"
                             THEN EncodeError(500, "Failed to create blog", NoProblems, "handleBlogsCreate")
                             ELSE EncodeBlog(201, s.heap[p], "handleBlogsCreate"),
                             <<"Create">>)
                       /\ fresh' = Put(fresh, blog.ID, s.heap[p])
                /\ nextId' = nextId + 1
                /\ UNCHANGED <<now, pc>>
    /\ UNCHANGED <<rw, mw, mu, cs, chain, srv>>

\* a handler that never reads the author parameter
QueryAuthor_Ignored(r) == EmptyStr

\* r.URL.Query().Get("author"): the empty string when the parameter is missing
QueryAuthor(r) == IF r.author.set THEN r.author.v ELSE EmptyStr

\* handleBlogsGet, the range over the map visiting the ids in the order o
BlogsGetStep(w, r, o) ==
    /\ pc[w] = "idle"
    /\ Sent
    /\ Dispatch(r) = "handleBlogsGet"
    /\ LET author == QueryAuthor(r)
           s == IF author # EmptyStr THEN MemGetByAuthor(heap, blogs, o, author)
                ELSE MemGetAll(heap, blogs, o)
       IN  /\ Commit(s.heap, s.blogs, loc)
           /\ last' = Exchange(r,
                 IF s.err # "nil"
                 THEN EncodeError(500, "Failed to retrieve blogs", NoProblems, "handleBlogsGet")
                 ELSE EncodeBlogs(200, Values(s.heap, s.ptrs), s.isNil, "handleBlogsGet"),
                 <<IF author # EmptyStr THEN "GetByAuthor" ELSE "GetAll">>)
    /\ UNCHANGED <<now, nextId, pc, fresh>>
    /\ UNCHANGED <<rw, mw, mu, cs, chain, srv>>

\* the routing wrapper of /api/v1/blogs for a method that is neither GET nor POST
BlogsMethodNotAllowedStep(w, r) ==
    /\ pc[w] = "idle"
    /\ Sent
    /\ Dispatch(r) = "blogsMethodNotAllowed"
    /\ last' = Exchange(r, HttpError("Method Not Allowed", 405, "addRoutes"), <<>>)
    /\ UNCHANGED <<heap, blogs, now, nextId, pc, loc, fresh, held>>
    /\ UNCHANGED <<rw, mw, mu, cs, chain, srv>>

\* handleBlogsByID: the id segment is empty or holds a further "/"
InvalidBlogIDStep(w, r) ==
    /\ pc[w] = "idle"
    /\ Sent
    /\ Dispatch(r) = "invalidBlogID"
    /\ last' = Exchange(r, EncodeError(400, "Invalid blog ID", NoProblems, "handleBlogsByID"), <<>>)
    /\ UNCHANGED <<heap, blogs, now, nextId, pc, loc, fresh, held>>
    /\ UNCHANGED <<rw, mw, mu, cs, chain, srv>>

\* handleBlogsByID: the default branch of the method switch
ByIDMethodNotAllowedStep(w, r) ==
    /\ pc[w] = "idle"
    /\ Sent
    /\ Dispatch(r) = "byIDMethodNotAllowed"
    /\ last' = Exchange(r, HttpError("Method not allowed", 405, "handleBlogsByID"), <<>>)
    /\ UNCHANGED <<heap, blogs, now, nextId, pc, loc, fresh, held>>
    /\ UNCHANGED <<rw, mw, mu, cs, chain, srv>>

\* the ServeMux has no pattern for the path
MuxNotFoundStep(w, r) ==
    /\ pc[w] = "idle"
    /\ Sent
    /\ Dispatch(r) = "muxNotFound"
    /\ last' = Exchange(r, HttpError("404 page not found", 404, "ServeMux"), <<>>)
    /\ UNCHANGED <<heap, blogs, now, nextId, pc, loc, fresh, held>>
    /\ UNCHANGED <<rw, mw, mu, cs, chain, srv>>

\* the answer of the by-id handlers to an error of the store's GetByID
LookupFailure(err, by) ==
    IF err = "ErrNotFound" THEN EncodeError(404, "Blog not found", NoProblems, by)
    ELSE EncodeError(500, "Failed to retrieve blog", NoProblems, by)

\* handleBlogGet
BlogGetStep(w, r) ==
    /\ pc[w] = "idle"
    /\ Sent
    /\ Dispatch(r) = "handleBlogGet"
    /\ LET s == MemGetByID(heap, blogs, IdOf(r))
       IN  /\ Commit(s.heap, s.blogs, loc)
           /\ last' = Exchange(r,
                 IF s.err # "nil" THEN LookupFailure(s.err, "handleBlogGet")
                 ELSE EncodeBlog(200, s.heap[s.ptr], "handleBlogGet"),
                 <<"GetByID">>)
    /\ UNCHANGED <<now, nextId, pc, fresh>>
    /\ UNCHANGED <<rw, mw, mu, cs, chain, srv>>

\* a handleBlogUpdate that decodes and validates the body before it looks the
\* blog up
UpdateLookupStep_DecodeFirst(w, r) ==
    /\ pc[w] = "idle"
    /\ Sent
    /\ Dispatch(r) = "handleBlogUpdate"
    /\ LET d == DecodeValidUpdate(r.body)
           s == MemGetByID(heap, blogs, IdOf(r))
       IN  IF d.err # "nil"
           THEN /\ last' = Exchange(r, EncodeError(400, "Invalid request body", NoProblems,
                                                   "handleBlogUpdate"), <<>>)
                /\ UNCHANGED <<heap, blogs, pc, loc, held>>
           ELSE IF s.err # "nil"
           THEN /\ last' = Exchange(r, EncodeError(404, "Blog not found", NoProblems,
                                                   "handleBlogUpdate"), <<"GetByID">>)
                /\ UNCHANGED <<heap, blogs, pc, loc, held>>
           ELSE /\ Commit(s.heap, s.blogs, [loc EXCEPT ![w] = [id |-> IdOf(r), ptr |-> s.ptr]])
                /\ pc' = [pc EXCEPT ![w] = "update"]
                /\ last' = Exchange([r EXCEPT !.body = NoBody], NoResponse, <<"GetByID">>)
    /\ UNCHANGED <<now, nextId, fresh>>
    /\ UNCHANGED <<rw, mw, mu, cs, chain, srv>>

\* handleBlogUpdate up to the lookup: "First check if blog exists".  The body
\* has not been read yet: when the blog is found, the exchange holds the
\* request without it until the second half decodes it
UpdateLookupStep(w, r) ==
    /\ pc[w] = "idle"
    /\ Sent
    /\ Dispatch(r) = "handleBlogUpdate"
    /\ LET s == MemGetByID(heap, blogs, IdOf(r))
       IN  IF s.err # "nil"
           THEN /\ last' = Exchange(r, LookupFailure(s.err, "handleBlogUpdate"), <<"GetByID">>)
                /\ UNCHANGED <<heap, blogs, pc, loc, held>>
           ELSE /\ Commit(s.heap, s.blogs, [loc EXCEPT ![w] = [id |-> IdOf(r), ptr |-> s.ptr]])
                /\ pc' = [pc EXCEPT ![w] = "update"]
                /\ last' = Exchange([r EXCEPT !.body = NoBody], NoResponse, <<"GetByID">>)
    /\ UNCHANGED <<now, nextId, fresh>>
    /\ UNCHANGED <<rw, mw, mu, cs, chain, srv>>

\* the response of handleBlogUpdate to a body that does not decode or validate
UpdateRejection(d) ==
    IF ~d.probNil
    THEN EncodeError(400, "Validation failed", d.problems, "handleBlogUpdate")
    ELSE EncodeError(400, "Invalid request body", NoProblems, "handleBlogUpdate")

\* the response of handleBlogUpdate to the result of the store's Update
UpdateAnswer(err, blog) ==
    IF err # "nil" THEN EncodeError(500, "Failed to update blog", NoProblems, "handleBlogUpdate")
    ELSE EncodeBlog(200, blog, "handleBlogUpdate")

\* handleBlogUpdate from the decode of the body on: decodeValid, Blog.Update
\* on the copy, the store's Update, the response
UpdateApplyStep(w, body) ==
    /\ pc[w] = "update"
    /\ Sent
    /\ pc' = [pc EXCEPT ![w] = "idle"]
    /\ LET d == DecodeValidUpdate(body)
           id == loc[w].id
           p == loc[w].ptr
           done == [loc EXCEPT ![w] = NoLoc]
           req == Request("PUT", BlogsPath \o <<id>>, Nil, body)
       IN  IF d.err # "nil"
           THEN /\ last' = Exchange(req, UpdateRejection(d), <<"GetByID">>)
                /\ Commit(heap, blogs, done)
                /\ UNCHANGED fresh
           ELSE LET h1 == [heap EXCEPT ![p] = BlogUpdate(heap[p], d.v, now)]
                    s == MemUpdate(h1, blogs, id, p)
                IN  /\ last' = Exchange(req, UpdateAnswer(s.err, s.heap[p]), <<"GetByID", "Update">>)
                    /\ Commit(s.heap, s.blogs, done)
                    /\ fresh' = IF s.err = "nil" THEN Drop(fresh, id) ELSE fresh
    /\ UNCHANGED <<now, nextId>>
    /\ UNCHANGED <<rw, mw, mu, cs, chain, srv>>

\* the response of handleBlogDelete to the result of the store's Delete
DeleteAnswer(err) ==
    IF err = "ErrNotFound" THEN EncodeError(404, "Blog not found", NoProblems, "handleBlogDelete")
    ELSE IF err # "nil" THEN EncodeError(500, "Failed to delete blog", NoProblems, "handleBlogDelete")
    ELSE Response(204, "", "none", "", NoProblems, <<>>, "handleBlogDelete")

\* handleBlogDelete
DeleteStep(w, r) ==
    /\ pc[w] = "idle"
    /\ Sent
    /\ Dispatch(r) = "handleBlogDelete"
    /\ LET s == MemDelete(heap, blogs, IdOf(r))
       IN  /\ Commit(s.heap, s.blogs, loc)
           /\ last' = Exchange(r, DeleteAnswer(s.err), <<"Delete">>)
           /\ fresh' = IF s.err = "nil" THEN Drop(fresh, IdOf(r)) ELSE fresh
    /\ UNCHANGED <<now, nextId, pc>>
    /\ UNCHANGED <<rw, mw, mu, cs, chain, srv>>

\* the server has sent the response the handler wrote and is done with the
\* exchange
FinishRequest ==
    /\ ~Sent
    /\ last' = NoExchange
    /\ UNCHANGED <<heap, blogs, now, nextId, pc, loc, fresh, held, rw, mw, mu, cs, chain, srv>>

\* the clock moves on; it never goes back
Tick ==
    /\ now < MaxClock
    /\ now' = now + 1
    /\ UNCHANGED <<heap, blogs, nextId, pc, loc, last, fresh, held>>
    /\ UNCHANGED <<rw, mw, mu, cs, chain, srv>>

(***************************************************************************)
(* Spec: one client sending one request after the other to the router.     *)
(***************************************************************************)
Client == WorkerSeq[1]

\* the requests, by the handler the router takes them to
Routed(h) == UNION {IF Dispatch(r) = h THEN {r} ELSE {} : r \in Requests}

HealthzRequests == Routed("handleHealthz")

CreateRequests == Routed("handleBlogsCreate")

BlogsGetRequests == Routed("handleBlogsGet")

BlogsOtherRequests == Routed("blogsMethodNotAllowed")

InvalidIdRequests == Routed("invalidBlogID")

ByIDOtherRequests == Routed("byIDMethodNotAllowed")

UnroutedRequests == Routed("muxNotFound")

BlogGetRequests == Routed("handleBlogGet")

UpdateRequests == Routed("handleBlogUpdate")

DeleteRequests == Routed("handleBlogDelete")

HandleHealthz == \E r \in HealthzRequests : HealthzStep(Client, r)

HandleBlogsCreate == \E r \in CreateRequests : CreateStep(Client, r)

HandleBlogsGet ==
    \E r \in BlogsGetRequests : \E o \in Orders(DOMAIN blogs) : BlogsGetStep(Client, r, o)

BlogsMethodNotAllowed == \E r \in BlogsOtherRequests : BlogsMethodNotAllowedStep(Client, r)

InvalidBlogID == \E r \in InvalidIdRequests : InvalidBlogIDStep(Client, r)

ByIDMethodNotAllowed == \E r \in ByIDOtherRequests : ByIDMethodNotAllowedStep(Client, r)

MuxNotFound == \E r \in UnroutedRequests : MuxNotFoundStep(Client, r)

HandleBlogGet == \E r \in BlogGetRequests : BlogGetStep(Client, r)

HandleBlogUpdateLookup == \E r \in UpdateRequests : UpdateLookupStep(Client, r)

HandleBlogUpdateApply == \E b \in UpdateBodies : UpdateApplyStep(Client, b)

HandleBlogDelete == \E r \in DeleteRequests : DeleteStep(Client, r)

Next ==
    \/ HandleHealthz
    \/ HandleBlogsCreate
    \/ HandleBlogsGet
    \/ BlogsMethodNotAllowed
    \/ InvalidBlogID
    \/ ByIDMethodNotAllowed
    \/ MuxNotFound
    \/ HandleBlogGet
    \/ HandleBlogUpdateLookup
    \/ HandleBlogUpdateApply
    \/ HandleBlogDelete
    \/ FinishRequest
    \/ Tick

Spec == Init /\ [][Next]_vars

(***************************************************************************)
(* SpecConc: two request goroutines on the same store.  A PUT is two       *)
(* critical sections of the store (GetByID, then Update) with the decode   *)
(* in between, so the other goroutine's requests can come in between.      *)
(***************************************************************************)
ConcPost == Request("POST", BlogsPath, Nil, Json(Some(ValidTitle), Some(ValidContent), Some(Str("A", 1))))

ConcItems(m) == {Request(m, p, Nil, NoBody) : p \in ItemPaths}

TitleOnly == Json(Some(<<Sp, Run("u", 1)>>), Nil, Nil)

ContentOnly == Json(Nil, Some(<<Run("d", 1), Sp>>), Nil)

\* a body with a key the update request does not have
ForeignKey == Json(Nil, Nil, Some(Str("z", 1)))

ConcBodies ==
    {TitleOnly, ContentOnly, ForeignKey, Json(Nil, Nil, Nil), Json(Some(BlankTitle), Nil, Nil)}

ConcCreate == \E w \in Workers : CreateStep(w, ConcPost)

ConcGet == \E w \in Workers : \E r \in ConcItems("GET") : BlogGetStep(w, r)

ConcUpdateLookup == \E w \in Workers : \E r \in ConcItems("PUT") : UpdateLookupStep(w, r)

ConcUpdateApply == \E w \in Workers : \E b \in ConcBodies : UpdateApplyStep(w, b)

ConcDelete == \E w \in Workers : \E r \in ConcItems("DELETE") : DeleteStep(w, r)

NextConc ==
    \/ ConcCreate
    \/ ConcGet
    \/ ConcUpdateLookup
    \/ ConcUpdateApply
    \/ ConcDelete
    \/ FinishRequest
    \/ Tick

SpecConc == Init /\ [][NextConc]_vars

(***************************************************************************)
(* SpecStore: a caller of the MemoryBlogStore that keeps the pointers it   *)
(* passed in and the pointers it got back, and writes through them.        *)
(***************************************************************************)
\* the pointers a caller holds at a time
MaxHeld == 2

\* the value a caller writes into a field of a blog it holds
Mark == Str("x", 1)

Reads == {"GetByID", "GetAll", "GetByAuthor"}

Holding(p, origin) == [ptr |-> p, origin |-> origin]

\* the store and the caller's pointers after a call
StoreCommit(h, m, hd) ==
    LET c == Canon(h, m, [w \in Workers |-> loc[w].ptr], [i \in DOMAIN hd |-> hd[i].ptr])
    IN  /\ heap' = c.heap
        /\ blogs' = c.blogs
        /\ held' = [i \in DOMAIN hd |-> [hd[i] EXCEPT !.ptr = c.hp[i]]]
        /\ UNCHANGED <<now, pc, loc, last, fresh, rw, mw, mu, cs, chain, srv>>

\* store.Create(ctx, domain.NewBlog(req)); the caller may keep its pointer
CallCreate(a, keep) ==
    /\ nextId < MaxCreates
    /\ keep => Len(held) < MaxHeld
    /\ LET blog == NewBlog([Title |-> ValidTitle, Content |-> ValidContent, Author |-> a],
                           Uuid(nextId + 1), now)
           p == Alloc(heap)
           s == MemCreate(WithNew(heap, blog), blogs, p)
       IN  StoreCommit(s.heap, s.blogs, IF keep THEN Append(held, Holding(p, "Create")) ELSE held)
    /\ nextId' = nextId + 1

\* store.GetByID(ctx, id)
CallGetByID(id) ==
    /\ Len(held) < MaxHeld
    /\ LET s == MemGetByID(heap, blogs, id)
       IN  StoreCommit(s.heap, s.blogs,
                       IF s.err = "nil" THEN Append(held, Holding(s.ptr, "GetByID")) ELSE held)
    /\ UNCHANGED nextId

\* store.GetAll(ctx)
CallGetAll(o) ==
    /\ Len(held) + Len(o) <= MaxHeld
    /\ LET s == MemGetAll(heap, blogs, o)
       IN  StoreCommit(s.heap, s.blogs,
                       held \o [i \in DOMAIN s.ptrs |-> Holding(s.ptrs[i], "GetAll")])
    /\ UNCHANGED nextId

\* store.GetByAuthor(ctx, author)
CallGetByAuthor(o, author) ==
    /\ Len(held) + Len(o) <= MaxHeld
    /\ LET s == MemGetByAuthor(heap, blogs, o, author)
       IN  StoreCommit(s.heap, s.blogs,
                       held \o [i \in DOMAIN s.ptrs |-> Holding(s.ptrs[i], "GetByAuthor")])
    /\ UNCHANGED nextId

\* store.Update(ctx, id, blog) with a blog the caller holds
CallUpdate(id, i) ==
    /\ i \in DOMAIN held
    /\ LET p == held[i].ptr
           s == MemUpdate(heap, blogs, id, p)
       IN  StoreCommit(s.heap, s.blogs,
                       IF s.err = "nil" THEN [held EXCEPT ![i].origin = "Update"] ELSE held)
    /\ UNCHANGED nextId

\* store.Delete(ctx, id)
CallDelete(id) ==
    /\ LET s == MemDelete(heap, blogs, id)
       IN  StoreCommit(s.heap, s.blogs, held)
    /\ UNCHANGED nextId

\* the caller assigns a field of a blog it holds
Mutate(i, field) ==
    /\ i \in DOMAIN held
    /\ heap[held[i].ptr][field] # Mark
    /\ StoreCommit([heap EXCEPT ![held[i].ptr][field] = Mark], blogs, held)
    /\ UNCHANGED nextId

\* the caller lets go of a pointer
Release(i) ==
    /\ i \in DOMAIN held
    /\ StoreCommit(heap, blogs, [j \in 1..(Len(held) - 1) |-> IF j < i THEN held[j] ELSE held[j + 1]])
    /\ UNCHANGED nextId

StoreAuthors == {Str("A", 1), Str("a", 1)}

MutableFields == {"Title"}

CallerCreates == \E a \in StoreAuthors : \E keep \in BOOLEAN : CallCreate(a, keep)

CallerGetsByID == \E id \in AllIds : CallGetByID(id)

CallerGetsAll == \E o \in Orders(DOMAIN blogs) : CallGetAll(o)

CallerGetsByAuthor == \E o \in Orders(DOMAIN blogs) : \E a \in StoreAuthors : CallGetByAuthor(o, a)

CallerUpdates == \E id \in AllIds : \E i \in 1..MaxHeld : CallUpdate(id, i)

CallerDeletes == \E id \in AllIds : CallDelete(id)

CallerMutates == \E i \in 1..MaxHeld : \E f \in MutableFields : Mutate(i, f)

CallerReleases == \E i \in 1..MaxHeld : Release(i)

NextStore ==
    \/ CallerCreates
    \/ CallerGetsByID
    \/ CallerGetsAll
    \/ CallerGetsByAuthor
    \/ CallerUpdates
    \/ CallerDeletes
    \/ CallerMutates
    \/ CallerReleases

SpecStore == Init /\ [][NextStore]_vars

(***************************************************************************)
(* SpecMw: panicRecoveryMiddleware around a handler that sets headers,     *)
(* writes a status and body chunks in any order, and returns or panics at  *)
(* any point.                                                              *)
(***************************************************************************)
\* the Write calls a handler makes
MaxWrites == 2

HandlerTypes == {JsonType, TextType}

HandlerStatuses == {200, 201, 404}

HandlerChunks == {"partial"}

PanicValues == {"boom", "index out of range"}

storeVars == <<heap, blogs, now, nextId, pc, loc, last, fresh, held, mu, cs, chain, srv>>

\* the middleware is entered with the writer of a new request
MwServe ==
    /\ mw.pc # "handler"
    /\ mw' = [pc |-> "handler", panicked |-> FALSE, value |-> ""]
    /\ rw' = NewWriter
    /\ UNCHANGED storeVars

HandlerSetHeader(ct) ==
    /\ mw.pc = "handler"
    /\ rw' = RwSetHeader(rw, ct)
    /\ UNCHANGED <<mw, storeVars>>

HandlerWriteHeader(st) ==
    /\ mw.pc = "handler"
    /\ rw' = RwWriteHeader(rw, st)
    /\ UNCHANGED <<mw, storeVars>>

HandlerWrite(chunk) ==
    /\ mw.pc = "handler"
    /\ Len(rw.body) < MaxWrites
    /\ rw' = RwWrite(rw, chunk)
    /\ UNCHANGED <<mw, storeVars>>

\* next.ServeHTTP returns: recover() gives nil in the deferred function
HandlerReturn ==
    /\ mw.pc = "handler"
    /\ mw' = [mw EXCEPT !.pc = "done"]
    /\ UNCHANGED <<rw, storeVars>>

\* next.ServeHTTP panics with the value v: the deferred function recovers it
HandlerPanic(v) ==
    /\ mw.pc = "handler"
    /\ mw' = [pc |-> "done", panicked |-> TRUE, value |-> v]
    /\ rw' = Recovered(rw)
    /\ UNCHANGED storeVars

MwSetHeader == \E ct \in HandlerTypes : HandlerSetHeader(ct)

MwWriteHeader == \E st \in HandlerStatuses : HandlerWriteHeader(st)

MwWrite == \E c \in HandlerChunks : HandlerWrite(c)

MwPanic == \E v \in PanicValues : HandlerPanic(v)

NextMw ==
    \/ MwServe
    \/ MwSetHeader
    \/ MwWriteHeader
    \/ MwWrite
    \/ HandlerReturn
    \/ MwPanic

SpecMw == Init /\ [][NextMw]_vars

(***************************************************************************)
(* SpecChain: the handler NewServer composes.  A request passes            *)
(* loggingMiddleware, panicRecoveryMiddleware, ratelimitMiddleware (which  *)
(* passes everything on) and corsMiddleware, and reaches the ServeMux      *)
(* unless it is an OPTIONS request.  The handler under the chain returns   *)
(* after writing its response, or panics before writing, after the status  *)
(* line, or after the body.                                                *)
(***************************************************************************)
ChainBodies == {Malformed, ConcPost.body}

ChainRequests ==
    {r \in Requests : r.method = "POST" => r.body \in ChainBodies}
    \cup {Request("OPTIONS", p, Nil, NoBody) : p \in OtherPaths \cup BadItemPaths}

PanicPoints == {"start", "header", "body"}

chainFrame == <<heap, blogs, now, nextId, pc, loc, fresh, held, mw, mu, cs, srv>>

\* the way in: loggingMiddleware wraps the writer, panicRecoveryMiddleware
\* sets up its deferred function, ratelimitMiddleware passes on, and
\* corsMiddleware sets its headers; an OPTIONS request is answered there and
\* the chain unwinds to the log line of loggingMiddleware
ChainServe(r) ==
    /\ chain.pc # "mux"
    /\ LET x == [WrapWriter(NewWriter) EXCEPT !.w = RwSetCors(@)]
           y == WrappedWriteHeader(x, 200)
       IN  IF r.method = "OPTIONS"
           THEN /\ rw' = y.w
                /\ chain' = [pc |-> "done", req |-> r, statusCode |-> y.statusCode,
                             log |-> <<LogLine("request completed", y.statusCode)>>,
                             panicked |-> FALSE]
           ELSE /\ rw' = x.w
                /\ chain' = [pc |-> "mux", req |-> r, statusCode |-> x.statusCode,
                             log |-> <<>>, panicked |-> FALSE]
    /\ UNCHANGED <<last, chainFrame>>

\* mux.ServeHTTP: the router and the handler it picks, up to the response
ServeMux ==
    /\ chain.pc = "mux"
    /\ \/ HealthzStep(Client, chain.req)
       \/ CreateStep(Client, chain.req)
       \/ \E o \in Orders(DOMAIN blogs) : BlogsGetStep(Client, chain.req, o)
       \/ BlogsMethodNotAllowedStep(Client, chain.req)
       \/ InvalidBlogIDStep(Client, chain.req)
       \/ ByIDMethodNotAllowedStep(Client, chain.req)
       \/ MuxNotFoundStep(Client, chain.req)
       \/ BlogGetStep(Client, chain.req)
       \/ UpdateLookupStep(Client, chain.req)
       \/ \E b \in ConcBodies : UpdateApplyStep(Client, b)
       \/ DeleteStep(Client, chain.req)

\* the handler writes its response and returns; every middleware returns, and
\* loggingMiddleware logs the status its wrapper holds
ChainReturn ==
    /\ chain.pc = "mux"
    /\ ~Sent
    /\ LET y == HandlerWrites([w |-> rw, statusCode |-> chain.statusCode], last.resp, FALSE)
       IN  /\ rw' = y.w
           /\ chain' = [chain EXCEPT !.pc = "done", !.statusCode = y.statusCode,
                            !.log = Append(@, LogLine("request completed", y.statusCode))]
    /\ last' = NoExchange
    /\ UNCHANGED chainFrame

\* the handler panics: the deferred function of panicRecoveryMiddleware logs
\* the panic and writes its 500, then loggingMiddleware logs
ChainPanic(at) ==
    /\ chain.pc = "mux"
    /\ pc[Client] = "idle"
    /\ IF at = "start" THEN Sent ELSE ~Sent /\ last.resp.kind # "none"
    /\ LET x == [w |-> rw, statusCode |-> chain.statusCode]
           y == IF at = "start" THEN x ELSE HandlerWrites(x, last.resp, at = "header")
           z == WrappedRecovered(y)
       IN  /\ rw' = z.w
           /\ chain' = [chain EXCEPT !.pc = "done", !.statusCode = z.statusCode,
                            !.panicked = TRUE,
                            !.log = <<LogLine("panic recovered", 0),
                                      LogLine("request completed", z.statusCode)>>]
    /\ last' = NoExchange
    /\ UNCHANGED chainFrame

ChainServes == \E r \in ChainRequests : ChainServe(r)

ChainPanics == \E at \in PanicPoints : ChainPanic(at)

NextChain ==
    \/ ChainServes
    \/ ServeMux
    \/ ChainReturn
    \/ ChainPanics
    \/ Tick

SpecChain == Init /\ [][NextChain]_vars

(***************************************************************************)
(* SpecLock: goroutines calling the methods of the MemoryBlogStore, each     *)
(* call in three steps: it takes the mutex, runs its body, and releases    *)
(* the mutex on return.                                                    *)
(***************************************************************************)
lockFrame == <<now, pc, loc, last, fresh, held, rw, mw, chain, srv>>

\* the blog a goroutine passes to Create or Update
CallerBlog(id) ==
    NewBlog([Title |-> ValidTitle, Content |-> ValidContent, Author |-> Str("A", 1)], id, now)

\* s.mu.Lock() / s.mu.RLock() at the head of a method
Enter(g, op, id) ==
    /\ cs[g].at = "out"
    /\ IF LockKind(op) = "Lock" THEN CanLock(mu) ELSE CanRLock(mu)
    /\ op = "Create" => (nextId < MaxCreates /\ id = Uuid(nextId + 1))
    /\ mu' = Locked(mu, LockKind(op))
    /\ cs' = [cs EXCEPT ![g] = [op |-> op, id |-> id, at |-> "in"]]
    /\ nextId' = IF op = "Create" THEN nextId + 1 ELSE nextId
    /\ UNCHANGED <<heap, blogs, lockFrame>>

\* the heap and map after the body of the method op
Body(op, id, o) ==
    IF op = "Create" THEN MemCreate(WithNew(heap, CallerBlog(id)), blogs, Alloc(heap))
    ELSE IF op = "Update" THEN MemUpdate(WithNew(heap, CallerBlog(id)), blogs, id, Alloc(heap))
    ELSE IF op = "Delete" THEN MemDelete(heap, blogs, id)
    ELSE IF op = "GetByID" THEN MemGetByID(heap, blogs, id)
    ELSE IF op = "GetAll" THEN MemGetAll(heap, blogs, o)
    ELSE MemGetByAuthor(heap, blogs, o, Str("A", 1))

\* the body of the method, between the lock and the return
RunBody(g, o) ==
    /\ cs[g].at = "in"
    /\ LET s == Body(cs[g].op, cs[g].id, o)
       IN  Commit(s.heap, s.blogs, loc)
    /\ cs' = [cs EXCEPT ![g].at = "ran"]
    /\ UNCHANGED <<now, nextId, pc, last, fresh, rw, mw, mu, chain, srv>>

\* the return of the method: the deferred unlock runs
Leave(g) ==
    /\ cs[g].at = "ran"
    /\ mu' = Released(mu, LockKind(cs[g].op))
    /\ cs' = [cs EXCEPT ![g] = NoCall]
    /\ UNCHANGED <<heap, blogs, nextId, lockFrame>>

Enters == \E g \in Goroutines : \E op \in StoreOps : \E id \in AllIds : Enter(g, op, id)

Runs == \E g \in Goroutines : \E o \in Orders(DOMAIN blogs) : RunBody(g, o)

Leaves == \E g \in Goroutines : Leave(g)

NextLock ==
    \/ Enters
    \/ Runs
    \/ Leaves

SpecLock == Init /\ [][NextLock]_vars

(***************************************************************************)
(* SpecWait: the same goroutines, with the call of a method, the taking of *)
(* its mutex and the critical section up to the return as separate steps,  *)
(* so that a goroutine can be seen waiting.  The mutex is sync.RWMutex as  *)
(* the sync package implements it: Lock first takes the writers' mutex and *)
(* announces itself, which holds back every later RLock, and then waits    *)
(* for the readers already inside to leave; Unlock lets in the readers     *)
(* that were held back before it lets the next writer announce itself.     *)
(***************************************************************************)
\* the id a call is made with: the methods without an id parameter have none
CallIds(op) ==
    IF op \in {"GetAll", "GetByAuthor"} THEN {""} ELSE AllIds

\* a writer holds the mutex or has announced itself and waits for the readers
Announced == mu.writer \/ \E g \in Goroutines : cs[g].at = "pending"

\* the readers held back by an announced writer
Blocked == {g \in Goroutines : cs[g].at = "blocked"}

\* the method is called: the goroutine is about to take the mutex
Call(g, op, id) ==
    /\ cs[g].at = "out"
    /\ op = "Create" => (nextId < MaxCreates /\ id = Uuid(nextId + 1))
    /\ cs' = [cs EXCEPT ![g] = [op |-> op, id |-> id, at |-> "wait"]]
    /\ nextId' = IF op = "Create" THEN nextId + 1 ELSE nextId
    /\ UNCHANGED <<heap, blogs, mu, lockFrame>>

\* s.mu.RLock(): it returns at once unless a writer is announced
AcquireRead(g) ==
    /\ cs[g].at = "wait"
    /\ LockKind(cs[g].op) = "RLock"
    /\ IF Announced
       THEN /\ cs' = [cs EXCEPT ![g].at = "blocked"]
            /\ mu' = mu
       ELSE /\ cs' = [cs EXCEPT ![g].at = "in"]
            /\ mu' = Locked(mu, "RLock")
    /\ UNCHANGED <<heap, blogs, nextId, lockFrame>>

\* s.mu.Lock(): the writers' mutex is taken and the writer announced; Lock
\* returns when no reader is inside
AcquireWrite(g) ==
    /\ LockKind(cs[g].op) = "Lock"
    /\ \/ /\ cs[g].at = "wait"
          /\ ~Announced
          /\ IF mu.readers = 0
             THEN /\ cs' = [cs EXCEPT ![g].at = "in"]
                  /\ mu' = Locked(mu, "Lock")
             ELSE /\ cs' = [cs EXCEPT ![g].at = "pending"]
                  /\ mu' = mu
       \/ /\ cs[g].at = "pending"
          /\ CanLock(mu)
          /\ cs' = [cs EXCEPT ![g].at = "in"]
          /\ mu' = Locked(mu, "Lock")
    /\ UNCHANGED <<heap, blogs, nextId, lockFrame>>

Acquire(g) == AcquireRead(g) \/ AcquireWrite(g)

\* the calls in flight once g has returned: its Unlock hands the mutex to
\* the readers that were held back
AfterReturn(g) ==
    [h \in Goroutines |->
        IF h = g THEN NoCall
        ELSE IF LockKind(cs[g].op) = "Lock" /\ h \in Blocked
             THEN [cs[h] EXCEPT !.at = "in"]
             ELSE cs[h]]

\* the mutex once g has returned
AfterUnlock(g) ==
    LET m == Released(mu, LockKind(cs[g].op))
    IN  IF LockKind(cs[g].op) = "Lock"
        THEN [m EXCEPT !.readers = @ + Cardinality(Blocked)]
        ELSE m

\* the body of the method and its return, on whichever path: the deferred
\* unlock runs
Finish(g, o) ==
    /\ cs[g].at = "in"
    /\ LET s == Body(cs[g].op, cs[g].id, o)
       IN  Commit(s.heap, s.blogs, loc)
    /\ mu' = AfterUnlock(g)
    /\ cs' = AfterReturn(g)
    /\ UNCHANGED <<now, nextId, pc, last, fresh, rw, mw, chain, srv>>

Calls == \E g \in Goroutines : \E op \in StoreOps : \E id \in CallIds(op) : Call(g, op, id)

Acquires == \E g \in Goroutines : Acquire(g)

Finishes == \E g \in Goroutines : \E o \in Orders(DOMAIN blogs) : Finish(g, o)

NextWait ==
    \/ Calls
    \/ Acquires
    \/ Finishes

\* what a return of g does to the calls in flight: the steps of NextWait
\* that do it are the Finish(g, o) steps
Returned(g) ==
    /\ cs[g].at = "in"
    /\ cs' = AfterReturn(g)

\* a goroutine inside a method goes on running to its return, none of the
\* methods blocks or loops without end; sync.Mutex hands the writers' mutex
\* to a writer that has waited long (its starvation mode), so a Lock that can
\* go on again and again does go on
Scheduling ==
    \A g \in Goroutines :
        /\ SF_vars(Acquire(g))
        /\ WF_cs(Returned(g))

SpecWait == Init /\ [][NextWait]_vars /\ Scheduling

(***************************************************************************)
(* SpecStart: Server.Start, the goroutine it starts, and the context that  *)
(* run passes in, which an interrupt cancels at any time.  The select of   *)
(* Start takes one of the cases that can proceed, whichever when both can. *)
(* Requests are accepted while the server serves and end one by one;       *)
(* http.Server.Shutdown returns nil once none is left, and the context's   *)
(* error when ShutdownTimeout passes first.                                *)
(***************************************************************************)
\* the requests in flight at one time
MaxInflight == 4

ListenError == "failed to create listener"

ServeError == "server error"

ShutdownError == "failed to shutdown server"

startFrame == <<heap, blogs, now, nextId, pc, loc, last, fresh, held, rw, mw, mu, cs, chain>>

\* Start makes the channel and starts the server goroutine
StartGo ==
    /\ srv.start = "idle"
    /\ srv' = [srv EXCEPT !.start = "select", !.serve = "listen"]
    /\ UNCHANGED startFrame

\* the interrupt: signal.NotifyContext closes ctx.Done()
Cancel ==
    /\ ~srv.done
    /\ srv' = [srv EXCEPT !.done = TRUE]
    /\ UNCHANGED startFrame

\* net.Listen
Listen(ok) ==
    /\ srv.serve = "listen"
    /\ srv' = IF ok THEN [srv EXCEPT !.serve = "serving"]
              ELSE [srv EXCEPT !.serve = "send", !.sending = ListenError]
    /\ UNCHANGED startFrame

\* s.server.Serve returns an error other than http.ErrServerClosed
ServeFails ==
    /\ srv.serve = "serving"
    /\ ~srv.closing
    /\ srv' = [srv EXCEPT !.serve = "send", !.sending = ServeError]
    /\ UNCHANGED startFrame

\* s.server.Serve returns http.ErrServerClosed: nothing is sent
ServeClosed ==
    /\ srv.serve = "serving"
    /\ srv.closing
    /\ srv' = [srv EXCEPT !.serve = "done"]
    /\ UNCHANGED startFrame

\* serverErr <- err, and the goroutine ends
Send ==
    /\ srv.serve = "send"
    /\ Len(srv.serverErr) < ChanCap
    /\ srv' = [srv EXCEPT !.serverErr = Append(@, srv.sending), !.serve = "done",
                          !.sending = "", !.sent = @ + 1, !.early = ~srv.done]
    /\ UNCHANGED startFrame

\* case err := <-serverErr: return err
SelectErr ==
    /\ srv.start = "select"
    /\ srv.serverErr # <<>>
    /\ srv' = [srv EXCEPT !.start = "returned", !.serverErr = Tail(@),
                          !.returns = Append(@, Head(srv.serverErr))]
    /\ UNCHANGED startFrame

\* case <-ctx.Done(): s.shutdown() calls s.server.Shutdown
SelectDone ==
    /\ srv.start = "select"
    /\ srv.done
    /\ srv' = [srv EXCEPT !.start = "shutdown", !.closing = TRUE]
    /\ UNCHANGED startFrame

\* the server accepts a request
Accept ==
    /\ srv.serve = "serving"
    /\ ~srv.closing
    /\ srv.inflight < MaxInflight
    /\ srv' = [srv EXCEPT !.inflight = @ + 1]
    /\ UNCHANGED startFrame

\* a request in flight ends
Complete ==
    /\ srv.inflight > 0
    /\ srv' = [srv EXCEPT !.inflight = @ - 1]
    /\ UNCHANGED startFrame

\* Shutdown returns nil: no request is in flight
ShutdownReturns ==
    /\ srv.start = "shutdown"
    /\ srv.inflight = 0
    /\ srv' = [srv EXCEPT !.start = "returned", !.returns = Append(@, "nil")]
    /\ UNCHANGED startFrame

\* ShutdownTimeout passes while requests are in flight
ShutdownTimesOut ==
    /\ srv.start = "shutdown"
    /\ srv.inflight > 0
    /\ srv' = [srv EXCEPT !.start = "returned", !.returns = Append(@, ShutdownError)]
    /\ UNCHANGED startFrame

Listens == \E ok \in BOOLEAN : Listen(ok)

NextStart ==
    \/ StartGo
    \/ Cancel
    \/ Listens
    \/ ServeFails
    \/ ServeClosed
    \/ Send
    \/ SelectErr
    \/ SelectDone
    \/ Accept
    \/ Complete
    \/ ShutdownReturns
    \/ ShutdownTimesOut

SpecStart == Init /\ [][NextStart]_vars

(***************************************************************************)
(* Vocabulary of the properties.                                           *)
(***************************************************************************)
\* the store as a reader sees it: id -> Blog value
StoreView == [id \in DOMAIN blogs |-> heap[blogs[id]]]

StoreViewNext == [id \in DOMAIN blogs' |-> heap'[blogs'[id]]]

\* empty or whitespace only
Blank(s) == \A i \in DOMAIN s : IsSpace(s[i].c)

\* t is s without its surrounding whitespace
IsTrimOf(t, s) ==
    /\ t = <<>> \/ (~IsSpace(t[1].c) /\ ~IsSpace(t[Len(t)].c))
    /\ \E i \in 0..Len(s) : \E j \in i..Len(s) :
          /\ SubSeq(s, i + 1, j) = t
          /\ \A k \in 1..i : IsSpace(s[k].c)
          /\ \A k \in (j + 1)..Len(s) : IsSpace(s[k].c)

\* the fields of a create payload that are blank or longer than their limit,
\* counted in characters
Offending(body) ==
    {f \in {"title"} : Blank(body.title.v) \/ CharLen(body.title.v) > TitleMax}
    \cup {f \in {"content"} : Blank(body.content.v) \/ CharLen(body.content.v) > ContentMax}
    \cup {f \in {"author"} : Blank(body.author.v) \/ CharLen(body.author.v) > AuthorMax}

Answer == last.resp

AnswerNext == last'.resp

\* the step has served a request of the set S: every handler step records
\* the exchange it made, and the clock's step records none
Served(S) == last' # last /\ last'.req \in S

\* the identifiers handed out whose blog is not stored
Gone == {Uuid(k) : k \in 1..nextId} \ DOMAIN blogs

(***************************************************************************)
(* C1.  A create payload that passes validation is answered 201 with a     *)
(* Blog that has a non-empty id, the trimmed title, content and author of  *)
(* the payload and createdAt = updatedAt; that Blog is then stored under   *)
(* its id, and a GetByID of the id finds it.                               *)
(***************************************************************************)
C1_Created(r) ==
    LET b == AnswerNext.blogs[1]
        got == MemGetByID(heap', blogs', b.ID)
    IN  /\ AnswerNext.status = 201
        /\ AnswerNext.kind = "blog"
        /\ b.ID # ""
        /\ IsTrimOf(b.Title, r.body.title.v)
        /\ IsTrimOf(b.Content, r.body.content.v)
        /\ IsTrimOf(b.Author, r.body.author.v)
        /\ b.CreatedAt = b.UpdatedAt
        /\ b.ID \in DOMAIN blogs'
        /\ StoreViewNext[b.ID] = b
        /\ got.err = "nil" /\ got.heap[got.ptr] = b

C1_ValidCreateIsStored ==
    [][(Served(CreateRequests) /\ DecodeValidCreate(last'.req.body).err = "nil")
         => C1_Created(last'.req)]_vars

C1_Witness ==
    /\ Answer.by = "handleBlogsCreate"
    /\ Answer.status = 201
    /\ Answer.blogs[1].Author = Str("a", 1)
    /\ Answer.blogs[1].ID \in DOMAIN blogs

(***************************************************************************)
(* C2.  A create payload with a blank or overlong field is answered 400    *)
(* "Validation failed" with a problems entry for exactly the offending     *)
(* fields, and the store is left as it was.                                *)
(***************************************************************************)
C2_Rejected(r) ==
    /\ AnswerNext.status = 400
    /\ AnswerNext.error = "Validation failed"
    /\ DOMAIN AnswerNext.problems = Offending(r.body)
    /\ StoreViewNext = StoreView

C2_InvalidCreateIsRejected ==
    [][(Served(CreateRequests) /\ last'.req.body.ok /\ Offending(last'.req.body) # {})
         => C2_Rejected(last'.req)]_vars

C2_Witness ==
    /\ Answer.by = "handleBlogsCreate"
    /\ Answer.status = 400
    /\ DOMAIN Answer.problems = {"title", "content"}
    /\ last.req.body.title.v = MultiByteTitle

(***************************************************************************)
(* C3.  A valid update applied to an existing blog: each present field     *)
(* becomes its trimmed value, each absent field and the author, id and     *)
(* createdAt keep their values, and updatedAt becomes the clock's reading. *)
(* C3_UpdatedAtStrictlyGreater is the statement as written (the reading is *)
(* strictly greater than the former updatedAt); C3_UpdatedAtNotLess is the *)
(* statement the program keeps (the reading is not less than it).          *)
(***************************************************************************)
UpdateExchanges == {Request("PUT", p, Nil, b) : p \in ItemPaths, b \in UpdateBodies}

\* the step is the second half of a PUT whose body decodes and validates
ValidUpdateApplied ==
    /\ pc[Client] = "update"
    /\ Served(UpdateExchanges)
    /\ DecodeValidUpdate(last'.req.body).err = "nil"

C3_Frame ==
    LET req == last'.req.body
        old == heap[loc[Client].ptr]
        new == AnswerNext.blogs[1]
    IN  /\ AnswerNext.status = 200
        /\ AnswerNext.kind = "blog"
        /\ IF req.title.set THEN IsTrimOf(new.Title, req.title.v) ELSE new.Title = old.Title
        /\ IF req.content.set THEN IsTrimOf(new.Content, req.content.v)
           ELSE new.Content = old.Content
        /\ new.Author = old.Author
        /\ new.ID = old.ID
        /\ new.CreatedAt = old.CreatedAt
        /\ new.UpdatedAt = now
        /\ StoreViewNext[old.ID] = new

C3_UpdatedAtStrictlyGreater ==
    [][ValidUpdateApplied =>
         (C3_Frame /\ AnswerNext.blogs[1].UpdatedAt > heap[loc[Client].ptr].UpdatedAt)]_vars

C3_UpdatedAtNotLess ==
    [][ValidUpdateApplied =>
         (C3_Frame /\ AnswerNext.blogs[1].UpdatedAt >= heap[loc[Client].ptr].UpdatedAt)]_vars

C3_Witness ==
    /\ Answer.by = "handleBlogUpdate"
    /\ Answer.status = 200
    /\ last.req.body.title.set /\ ~last.req.body.content.set
    /\ Answer.blogs[1].Title = Str("u", 1)
    /\ Answer.blogs[1].Content = Str("c", 1)
    /\ Answer.blogs[1].UpdatedAt > Answer.blogs[1].CreatedAt

(***************************************************************************)
(* C4.  A DELETE of an id that is not stored is answered 404 "Blog not     *)
(* found" and leaves the store as it was; a DELETE of a stored id is       *)
(* answered 204 without a body and removes that blog and no other; from    *)
(* then on every GET, PUT and DELETE of the id is answered 404.            *)
(***************************************************************************)
C4_DeleteAnswer ==
    LET id == IdOf(last'.req)
    IN  IF id \in DOMAIN blogs
        THEN /\ AnswerNext.status = 204
             /\ AnswerNext.kind = "none"
             /\ StoreViewNext = Drop(StoreView, id)
        ELSE /\ AnswerNext.status = 404
             /\ AnswerNext.error = "Blog not found"
             /\ StoreViewNext = StoreView

C4_DeleteRemoves ==
    [][/\ (pc[Client] = "idle" /\ Served(DeleteRequests)) => C4_DeleteAnswer
       /\ (/\ pc[Client] = "idle"
           /\ Served(BlogGetRequests \cup UpdateRequests \cup DeleteRequests)
           /\ IdOf(last'.req) \in Gone)
          => (AnswerNext.status = 404 /\ AnswerNext.error = "Blog not found")
       /\ Gone \subseteq {Uuid(k) : k \in 1..nextId'} \ DOMAIN blogs']_vars

C4_Witness ==
    /\ Answer.by = "handleBlogDelete"
    /\ Answer.status = 404
    /\ IdOf(last.req) \in Gone
    /\ DOMAIN blogs # {}

(***************************************************************************)
(* C5.  GET /api/v1/blogs?author=X with a non-empty X is answered 200 with *)
(* the stored blogs whose author is exactly X: each of them once, and no   *)
(* other blog; when none matches the status is still 200.                  *)
(***************************************************************************)
C5_Filtered ==
    LET X == last'.req.author.v
        bs == AnswerNext.blogs
    IN  /\ AnswerNext.status = 200
        /\ \A i, j \in DOMAIN bs : bs[i].ID = bs[j].ID => i = j
        /\ {bs[i] : i \in DOMAIN bs}
             = {StoreView[id] : id \in {k \in DOMAIN blogs : StoreView[k].Author = X}}

C5_AuthorFilterIsExact ==
    [][(/\ Served(Requests)
        /\ last'.req.method = "GET"
        /\ last'.req.path = BlogsPath
        /\ last'.req.author.set
        /\ last'.req.author.v # EmptyStr) => C5_Filtered]_vars

C5_Witness ==
    /\ Answer.by = "handleBlogsGet"
    /\ last.req.author = Some(Str("a", 1))
    /\ Len(Answer.blogs) = 1
    /\ \E id \in DOMAIN blogs : StoreView[id].Author = Str("A", 1)

(***************************************************************************)
(* C6.  A blog fetched by its id, when nothing has written that id since   *)
(* its creation, has the id, title, content, author, createdAt and         *)
(* updatedAt of the blog the creation answered.                            *)
(***************************************************************************)
C6_RoundTrip ==
    [][(Served(BlogGetRequests) /\ IdOf(last'.req) \in DOMAIN fresh)
         => (/\ AnswerNext.status = 200
             /\ AnswerNext.blogs = <<fresh[IdOf(last'.req)]>>)]_vars

C6_Witness ==
    /\ Answer.by = "handleBlogGet"
    /\ Answer.status = 200
    /\ IdOf(last.req) \in DOMAIN fresh
    /\ Answer.blogs[1].ID = IdOf(last.req)
    /\ Answer.blogs[1].Title = Str("t", 1)

(***************************************************************************)
(* C7.  When the handler under the panic-recovery middleware has panicked, *)
(* at whatever point of writing its response, the client has status 500    *)
(* and the body {"error":"Internal server error"}, and the panic value is  *)
(* not in the response.                                                    *)
(***************************************************************************)
C7_PanicAnswers500 ==
    (mw.pc = "done" /\ mw.panicked)
        => (/\ rw.status = 500
            /\ rw.body = <<InternalErrorJson>>
            /\ \A i \in DOMAIN rw.body : rw.body[i] # mw.value)

(***************************************************************************)
(* C8.  On /api/v1/blogs the router takes GET to the list handler, POST to *)
(* the create handler and answers 405 to every other method; on            *)
(* /api/v1/blogs/{id} with a well-formed id it answers 405 to every method *)
(* but GET, PUT and DELETE; a request answered 405 makes no call of the    *)
(* store and leaves it as it was.                                          *)
(***************************************************************************)
C8_Routed ==
    LET r == last'.req
    IN  /\ (r.path = BlogsPath /\ r.method = "GET")
             => (AnswerNext.by = "handleBlogsGet" /\ AnswerNext.status # 405)
        /\ (r.path = BlogsPath /\ r.method = "POST")
             => (AnswerNext.by = "handleBlogsCreate" /\ AnswerNext.status # 405)
        /\ (r.path = BlogsPath /\ r.method \notin {"GET", "POST"})
             => AnswerNext.status = 405
        /\ (r.path \in ItemPaths /\ r.method \notin {"GET", "PUT", "DELETE"})
             => AnswerNext.status = 405
        /\ AnswerNext.status = 405
             => (last'.calls = <<>> /\ heap' = heap /\ blogs' = blogs)

C8_MethodDispatch ==
    [][(pc[Client] = "idle" /\ Served(Requests)) => C8_Routed]_vars

C8_Witness ==
    /\ Answer.status = 405
    /\ last.req.method = "HEAD"
    /\ last.req.path \in ItemPaths
    /\ DOMAIN blogs # {}

(***************************************************************************)
(* C9.  A PUT of a blog that is absent is answered 404 "Blog not found",   *)
(* both when the lookup of the handler misses and when the store's Update  *)
(* reports that the blog is gone; it is never answered 500.                *)
(***************************************************************************)
\* a PUT finds its blog absent: at its lookup (which leaves every goroutine
\* where it was), or at its call of the store's Update
PutFindsAbsent ==
    /\ last' # last
    /\ last'.req.method = "PUT"
    /\ IdOf(last'.req) \notin DOMAIN blogs
    /\ pc' = pc \/ last'.calls = <<"GetByID", "Update">>

C9_PutOfAbsentIs404 ==
    [][PutFindsAbsent => (AnswerNext.status = 404 /\ AnswerNext.error = "Blog not found")]_vars

(***************************************************************************)
(* C10.  A blog returned by GetByID, GetAll or GetByAuthor is a copy of    *)
(* its own: when the caller assigns a field of it, the stored blogs and    *)
(* the blogs any other call returned stay as they were.                    *)
(***************************************************************************)
C10_ReadsAreCopies ==
    [][\A i \in 1..MaxHeld : \A f \in MutableFields :
         (Mutate(i, f) /\ held[i].origin \in Reads)
            => (/\ StoreViewNext = StoreView
                /\ \A j \in DOMAIN held \ {i} : heap'[held'[j].ptr] = heap[held[j].ptr])]_vars

C10_Witness ==
    /\ Len(held) = 2
    /\ held[1].origin \in Reads
    /\ held[2].origin \in Reads
    /\ heap[held[1].ptr].ID = heap[held[2].ptr].ID
    /\ heap[held[1].ptr].ID \in DOMAIN blogs
    /\ heap[held[1].ptr].Title = Mark
    /\ heap[held[2].ptr].Title # Mark
    /\ StoreView[heap[held[1].ptr].ID].Title # Mark

(***************************************************************************)
(* C11.  The store alone owns the blogs it stores: when a caller assigns a *)
(* field of any blog it holds, the one it passed to Create or Update       *)
(* included, what GetByID, GetAll and GetByAuthor return stays as it was.  *)
(***************************************************************************)
C11_StoreOwnsItsBlogs ==
    [][\A i \in 1..MaxHeld : \A f \in MutableFields :
         Mutate(i, f) => StoreViewNext = StoreView]_vars

\* the caller has written through the pointer it passed to Create, and the
\* stored blog shows the write
C11_Witness ==
    \E i \in DOMAIN held :
        /\ held[i].origin = "Create"
        /\ heap[held[i].ptr].ID \in DOMAIN blogs
        /\ blogs[heap[held[i].ptr].ID] = held[i].ptr
        /\ StoreView[heap[held[i].ptr].ID].Title = Mark

(***************************************************************************)
(* C12.  A goroutine inside the critical section of Create, Update or      *)
(* Delete is alone inside the store: no other goroutine is inside any      *)
(* method at that time.  Goroutines inside GetByID, GetAll and GetByAuthor *)
(* can be inside together (C12_Witness is such a state).                   *)
(***************************************************************************)
Inside(g) == cs[g].at \in {"in", "ran"}

C12_WritersExclude ==
    \A g, h \in Goroutines :
        (g # h /\ Inside(g) /\ Inside(h)) => (cs[g].op \in Reads /\ cs[h].op \in Reads)

C12_Witness ==
    \E g, h \in Goroutines :
        /\ g # h
        /\ Inside(g) /\ cs[g].op = "GetAll"
        /\ Inside(h) /\ cs[h].op = "GetByID"
        /\ mu.readers = 2
        /\ DOMAIN blogs # {}

(***************************************************************************)
(* C13.  After any sequence of Create, Update and Delete calls each blog   *)
(* is stored under the key that equals its own id field, so no two stored  *)
(* blogs have the same id.                                                 *)
(***************************************************************************)
C13_KeyIsOwnId ==
    /\ \A id \in DOMAIN blogs : StoreView[id].ID = id
    /\ \A a, b \in DOMAIN blogs : StoreView[a].ID = StoreView[b].ID => a = b

\* two keys of the map hold blogs with one and the same id
C13_Witness ==
    \E a, b \in DOMAIN blogs : a # b /\ StoreView[a].ID = StoreView[b].ID

(***************************************************************************)
(* C14.  Whatever requests were served, in whatever interleaving, every    *)
(* stored blog has createdAt <= updatedAt, and a blog no PUT has written   *)
(* since its creation has createdAt = updatedAt.                           *)
(***************************************************************************)
C14_CreatedNotAfterUpdated ==
    \A id \in DOMAIN blogs :
        /\ StoreView[id].CreatedAt <= StoreView[id].UpdatedAt
        /\ StoreView[id].UpdatedAt <= now
        /\ id \in DOMAIN fresh => StoreView[id].CreatedAt = StoreView[id].UpdatedAt

C14_Witness ==
    \E a, b \in DOMAIN blogs :
        /\ StoreView[a].CreatedAt < StoreView[a].UpdatedAt
        /\ b \in DOMAIN fresh
        /\ StoreView[b].CreatedAt = StoreView[b].UpdatedAt
        /\ \E w \in Workers : pc[w] = "update"

(***************************************************************************)
(* C15.  Whatever requests were served, every stored blog has a title, a   *)
(* content and an author that are not empty, neither begin nor end with    *)
(* whitespace, and have at most 100, 5000 and 50 characters.               *)
(***************************************************************************)
\* s is not empty, has no whitespace at either end and at most max characters
WellFormed(s, max) ==
    /\ s # EmptyStr
    /\ ~IsSpace(s[1].c)
    /\ ~IsSpace(s[Len(s)].c)
    /\ CharLen(s) <= max

CorsSent(w) ==
    /\ w.wroteHeader
    /\ DOMAIN w.sentCors = {"Access-Control-Allow-Origin", "Access-Control-Allow-Methods",
                            "Access-Control-Allow-Headers"}
    /\ w.sentCors["Access-Control-Allow-Origin"] = "*"
    /\ w.sentCors["Access-Control-Allow-Methods"] = "GET, POST, PUT, DELETE, OPTIONS"
    /\ w.sentCors["Access-Control-Allow-Headers"] = "Content-Type, Authorization"

C16_CorsOnEveryResponse ==
    [][/\ chain'.pc = "done" => CorsSent(rw')
       /\ (chain' # chain /\ chain'.req.method = "OPTIONS")
            => /\ chain.pc # "mux"
               /\ chain'.pc = "done"
               /\ rw'.status = 200
               /\ rw'.body = <<>>
               /\ UNCHANGED <<heap, blogs, last, fresh, nextId>>]_vars

\* the OPTIONS request to a path the router has no pattern for is answered 200
\* with the headers, while the store holds a blog
C16_Witness ==
    /\ chain.pc = "done"
    /\ chain.req.method = "OPTIONS"
    /\ chain.req.path = <<"metrics">>
    /\ rw.status = 200
    /\ CorsSent(rw)
    /\ DOMAIN blogs # {}

(***************************************************************************)
(* C17.  When a request has passed the chain, the log holds exactly one    *)
(* "request completed" line for it, written last, after the handler has    *)
(* returned or its panic was recovered or the OPTIONS request was          *)
(* answered, and the status in that line is the status the client was      *)
(* sent.                                                                   *)
(***************************************************************************)
Completed == {i \in DOMAIN chain.log : chain.log[i].msg = "request completed"}

C17_OneLineWithSentStatus ==
    chain.pc = "done"
        => /\ Cardinality(Completed) = 1
           /\ Len(chain.log) \in Completed
           /\ rw.wroteHeader
           /\ chain.log[Len(chain.log)].status = rw.status

\* the handler had sent the status line 201 when it panicked: the line says 500
C17_Witness ==
    /\ chain.pc = "done"
    /\ chain.panicked
    /\ rw.status = 201
    /\ Completed = {2}
    /\ chain.log[2].status = 500

(***************************************************************************)
(* C18.  Every response of the router that has a body has the Content-Type *)
(* application/json, the 405 answers to unsupported methods included.      *)
(***************************************************************************)
C18_BodyIsJson == Answer.kind # "none" => Answer.ctype = JsonType

\* PATCH on a stored blog's path is answered 405 by http.Error, as plain text
C18_Witness ==
    /\ Answer.by = "handleBlogsByID"
    /\ Answer.status = 405
    /\ Answer.kind = "text"
    /\ Answer.ctype = TextType
    /\ last.req.method = "PATCH"
    /\ IdOf(last.req) \in DOMAIN blogs

(***************************************************************************)
(* C19.  GET /api/v1/blogs answered 200, with or without the author        *)
(* parameter, has a JSON array as its body: the empty array when no stored *)
(* blog matches, never null.                                               *)
(***************************************************************************)
C19_ListIsArray ==
    (Answer.by = "handleBlogsGet" /\ Answer.status = 200) => Answer.kind = "list"

\* the store holds a blog, none of the author asked for: the body is null
C19_Witness ==
    /\ Answer.by = "handleBlogsGet"
    /\ Answer.status = 200
    /\ last.req.author = Some(Str("q", 1))
    /\ Answer.kind = "null"
    /\ Answer.blogs = <<>>
    /\ DOMAIN blogs # {}

(***************************************************************************)
(* C20.  A POST or PUT whose body does not decode is answered 400 "Invalid *)
(* request body" without problems, whatever validation would say of the    *)
(* value; a body that decodes and has validation problems is answered 400  *)
(* "Validation failed" with exactly those problems, at least one; and      *)
(* decodeValid gives nil problems together with a nil error exactly when   *)
(* the body decodes and validation finds no problem, in which case the     *)
(* request is not answered 400.                                            *)
(***************************************************************************)
C20_Decoded(body, d, found) ==
    /\ ~body.ok
         => /\ AnswerNext.status = 400
            /\ AnswerNext.error = "Invalid request body"
            /\ AnswerNext.problems = NoProblems
            /\ d.probNil /\ d.err # "nil"
    /\ (body.ok /\ found # NoProblems)
         => /\ AnswerNext.status = 400
            /\ AnswerNext.error = "Validation failed"
            /\ AnswerNext.problems = found
            /\ DOMAIN AnswerNext.problems # {}
    /\ (d.probNil /\ d.err = "nil") <=> (body.ok /\ found = NoProblems)
    /\ (body.ok /\ found = NoProblems) => AnswerNext.status # 400

C20_DecodeThenValidate ==
    [][/\ Served(CreateRequests)
            => LET body == last'.req.body
               IN  C20_Decoded(body, DecodeValidCreate(body),
                      CreateValid([Title |-> body.title.v, Content |-> body.content.v,
                                   Author |-> body.author.v]))
       /\ (pc[Client] = "update" /\ Served(UpdateExchanges))
            => LET body == last'.req.body
               IN  C20_Decoded(body, DecodeValidUpdate(body),
                      UpdateValid([Title |-> body.title, Content |-> body.content]))]_vars

\* a PUT on a stored blog with a body that is not JSON
C20_Witness ==
    /\ Answer.by = "handleBlogUpdate"
    /\ ~last.req.body.ok
    /\ Answer.status = 400
    /\ Answer.error = "Invalid request body"
    /\ Answer.problems = NoProblems
    /\ IdOf(last.req) \in DOMAIN blogs

(***************************************************************************)
(* C21.  A create payload that decodes is accepted (answered 201) exactly  *)
(* when each of title, content and author is non-blank and, without its    *)
(* surrounding whitespace, at most 100, 5000 and 50 characters long: the   *)
(* whitespace around a field does not count towards its limit.             *)
(***************************************************************************)
Acceptable(s, max) == ~Blank(s) /\ CharLen(TrimSpace(s)) <= max

C21_AcceptedIffWithinLimits ==
    [][(Served(CreateRequests) /\ last'.req.body.ok)
         => LET b == last'.req.body
            IN  (AnswerNext.status = 201)
                  <=> (/\ Acceptable(b.title.v, TitleMax)
                       /\ Acceptable(b.content.v, ContentMax)
                       /\ Acceptable(b.author.v, AuthorMax))]_vars

\* a title of exactly 100 characters behind one space is rejected as too long
C21_Witness ==
    /\ Answer.by = "handleBlogsCreate"
    /\ last.req.body.title.v = <<Sp, Run("x", TitleMax)>>
    /\ CharLen(TrimSpace(last.req.body.title.v)) = TitleMax
    /\ Answer.status = 400
    /\ DOMAIN Answer.problems = {"title"}

(***************************************************************************)
(* C22.  A request on a path under /api/v1/blogs/ whose remainder is empty *)
(* or holds a further "/" is answered 400 "Invalid blog ID" whatever its   *)
(* method is, also a method the by-id handler does not support; no store   *)
(* call is made for it and the store is as before.                         *)
(***************************************************************************)
MalformedIdPath(p) ==
    /\ Len(p) > Len(BlogsPath)
    /\ SubSeq(p, 1, Len(BlogsPath)) = BlogsPath
    /\ p[Len(BlogsPath) + 1] = "" \/ Len(p) > Len(BlogsPath) + 1

C22_MalformedIdIs400 ==
    [][(Served(Requests) /\ MalformedIdPath(last'.req.path))
         => (/\ AnswerNext.status = 400
             /\ AnswerNext.error = "Invalid blog ID"
             /\ last'.calls = <<>>
             /\ StoreViewNext = StoreView
             /\ UNCHANGED <<heap, blogs>>)]_vars

\* PATCH /api/v1/blogs/u1/comments, while u1 is stored, is answered 400
C22_Witness ==
    /\ last.req.method = "PATCH"
    /\ last.req.path = BlogsPath \o <<"u1", "comments">>
    /\ Answer.status = 400
    /\ Answer.error = "Invalid blog ID"
    /\ DOMAIN blogs # {}

(***************************************************************************)
(* C23.  A PUT on an id that is not stored is answered 404 "Blog not       *)
(* found" whatever its body is (none, malformed, failing validation,       *)
(* valid), after the lookup as its only store call; a PUT on a stored id   *)
(* whose body does not decode or does not validate is answered 400; either *)
(* way the store, the updatedAt of every blog included, is as before.      *)
(***************************************************************************)
C23_LookupBeforeDecode ==
    [][/\ (pc[Client] = "idle" /\ Served(UpdateRequests) /\ IdOf(last'.req) \notin DOMAIN blogs)
            => (/\ AnswerNext.status = 404
                /\ AnswerNext.error = "Blog not found"
                /\ last'.calls = <<"GetByID">>
                /\ StoreViewNext = StoreView)
       /\ (/\ pc[Client] = "update"
           /\ Served(UpdateExchanges)
           /\ loc[Client].id \in DOMAIN blogs
           /\ ~last'.req.body.ok \/ UpdateValid([Title |-> last'.req.body.title,
                                                Content |-> last'.req.body.content]) # NoProblems)
            => (/\ AnswerNext.status = 400
                /\ last'.calls = <<"GetByID">>
                /\ StoreViewNext = StoreView)]_vars

\* a PUT with a body that fails validation, on an id whose blog was deleted
C23_Witness ==
    /\ Answer.by = "handleBlogUpdate"
    /\ Answer.status = 404
    /\ last.req.body = Json(Some(BlankTitle), Nil, Nil)
    /\ IdOf(last.req) \in Gone
    /\ DOMAIN blogs # {}

(***************************************************************************)
(* C24.  No update is lost: when a PUT that sets only the content is       *)
(* answered 200 on a blog whose title another PUT has set, the stored blog *)
(* has that title and the new content afterwards, and likewise with title  *)
(* and content exchanged, however the lookups and the store updates of the *)
(* two requests interleave.                                                *)
(***************************************************************************)
Applied(w) == pc[w] = "update" /\ pc'[w] = "idle" /\ AnswerNext.status = 200

C24_NoLostUpdate ==
    [][\A w \in Workers :
         (Applied(w) /\ loc[w].id \in DOMAIN blogs)
           => LET id == loc[w].id
                  b == last'.req.body
                  both == /\ StoreViewNext[id].Title = Str("u", 1)
                          /\ StoreViewNext[id].Content = Str("d", 1)
              IN  /\ (b = ContentOnly /\ StoreView[id].Title = Str("u", 1)) => both
                  /\ (b = TitleOnly /\ StoreView[id].Content = Str("d", 1)) => both]_vars

\* both requests have looked the blog up, the PUT of the title has been
\* answered 200, and the other goroutine still holds the copy with the old title
C24_Witness ==
    \E w \in Workers :
        /\ pc[w] = "update"
        /\ loc[w].id \in DOMAIN blogs
        /\ heap[loc[w].ptr].Title = Str("t", 1)
        /\ StoreView[loc[w].id].Title = Str("u", 1)
        /\ Answer.status = 200
        /\ last.req.body = TitleOnly
        /\ IdOf(last.req) = loc[w].id

(***************************************************************************)
(* C25.  In every step of any interleaving of requests, a blog that is     *)
(* stored before and after the step has the same id, createdAt and author, *)
(* also when the step is a PUT whose body carries a key for one of them;   *)
(* the key it is stored under is its id; and a blog leaves the store only  *)
(* by the DELETE of its id that is answered 204.                           *)
(***************************************************************************)
C25_IdentityIsImmutable ==
    [][/\ \A id \in DOMAIN blogs \cap DOMAIN blogs' :
            /\ StoreViewNext[id].ID = StoreView[id].ID
            /\ StoreViewNext[id].CreatedAt = StoreView[id].CreatedAt
            /\ StoreViewNext[id].Author = StoreView[id].Author
       /\ \A id \in DOMAIN blogs' : StoreViewNext[id].ID = id
       /\ \A id \in DOMAIN blogs \ DOMAIN blogs' :
            /\ last'.req.method = "DELETE"
            /\ IdOf(last'.req) = id
            /\ AnswerNext.status = 204]_vars

\* a PUT with an author key was answered 200 at a later clock reading: the
\* blog has the author and createdAt of its creation
C25_Witness ==
    /\ Answer.by = "handleBlogUpdate"
    /\ Answer.status = 200
    /\ last.req.body = ForeignKey
    /\ IdOf(last.req) \in DOMAIN blogs
    /\ StoreView[IdOf(last.req)].Author = Str("A", 1)
    /\ StoreView[IdOf(last.req)].CreatedAt < StoreView[IdOf(last.req)].UpdatedAt

(***************************************************************************)
(* C26.  Every call of a method of the store returns: a goroutine that has *)
(* called a method, whether it waits for the mutex or is inside, is        *)
(* outside again later, whatever the other goroutines call and whatever    *)
(* the method finds (the not-found returns included); no calls block each  *)
(* other for ever.                                                         *)
(***************************************************************************)
C26_EveryCallReturns == \A g \in Goroutines : (cs[g].at # "out") ~> (cs[g].at = "out")

\* a Delete of an id that is not stored has announced itself and waits for
\* a reader inside, while a later reader is held back behind it
C26_Witness ==
    \E g \in Goroutines :
        /\ cs[g].at = "pending"
        /\ cs[g].op = "Delete"
        /\ cs[g].id \notin DOMAIN blogs
        /\ mu.readers = 1
        /\ Blocked # {}
        /\ DOMAIN blogs # {}

(***************************************************************************)
(* C27.  store.Update(ctx, id, blog) with an id that is not stored returns *)
(* ErrNotFound and leaves the store as it was: nothing is inserted.  With a *)
(* stored id it returns nil, and afterwards the entry of that id is the    *)
(* blog that was passed, all of it and its own ID field included, the      *)
(* other entries are as before and the store has the same keys.            *)
(***************************************************************************)
C27_UpdateReplacesOrRefuses ==
    [][\A id \in AllIds : \A i \in 1..MaxHeld :
         CallUpdate(id, i) =>
             IF id \notin DOMAIN blogs
             THEN /\ MemUpdate(heap, blogs, id, held[i].ptr).err = "ErrNotFound"
                  /\ StoreViewNext = StoreView
                  /\ held'[i].origin = held[i].origin
             ELSE /\ MemUpdate(heap, blogs, id, held[i].ptr).err = "nil"
                  /\ DOMAIN blogs' = DOMAIN blogs
                  /\ StoreViewNext[id] = heap[held[i].ptr]
                  /\ \A x \in DOMAIN blogs \ {id} : StoreViewNext[x] = StoreView[x]
                  /\ held'[i].origin = "Update"]_vars

\* an Update has put a blog with another id under a stored id, while an id
\* that was never stored is still absent
C27_Witness ==
    /\ \E id \in DOMAIN blogs : \E i \in DOMAIN held :
           /\ held[i].origin = "Update"
           /\ blogs[id] = held[i].ptr
           /\ heap[held[i].ptr].ID # id
    /\ AllIds \ DOMAIN blogs # {}

(***************************************************************************)
(* C28.  GET /api/v1/blogs filters by author exactly when the author       *)
(* parameter has a non-empty value: then the one store call is GetByAuthor *)
(* and the answer holds the stored blogs of that author and no other;      *)
(* without the parameter, or with ?author=, the one store call is GetAll   *)
(* and the answer holds every stored blog, once each.                      *)
(***************************************************************************)
C28_FilterIffAuthorGiven ==
    [][Served(ListRequests) =>
         LET q == last'.req.author
             bs == AnswerNext.blogs
             given == q.set /\ q.v # EmptyStr
             wanted == IF given
                       THEN {k \in DOMAIN blogs : StoreView[k].Author = q.v}
                       ELSE DOMAIN blogs
         IN  /\ AnswerNext.status = 200
             /\ last'.calls = <<IF given THEN "GetByAuthor" ELSE "GetAll">>
             /\ Len(bs) = Cardinality(wanted)
             /\ {bs[i] : i \in DOMAIN bs} = {StoreView[k] : k \in wanted}]_vars

\* ?author= has been answered with both stored blogs, which have different
\* authors
C28_Witness ==
    /\ Answer.by = "handleBlogsGet"
    /\ last.req.author = Some(EmptyStr)
    /\ last.calls = <<"GetAll">>
    /\ Len(Answer.blogs) = 2
    /\ Answer.blogs[1].Author # Answer.blogs[2].Author

(***************************************************************************)
(* C29.  Start returns at most once.  When the server goroutine has sent   *)
(* an error before the context was cancelled, Start returns that error;    *)
(* when it has sent none, Start returns what the shutdown gave: nil, or    *)
(* the shutdown error.  (An error sent after the cancellation is left out: *)
(* either return is taken as right.)  The goroutine sends at most one      *)
(* error, and whenever it is at its send the channel has room, so the send *)
(* goes through at once, whether or not Start is still there to receive.   *)
(***************************************************************************)
C29_StartReturnsOnce ==
    /\ Len(srv.returns) <= 1
    /\ srv.sent <= 1
    /\ srv.serve = "send" => Len(srv.serverErr) < ChanCap
    /\ (srv.returns # <<>> /\ srv.early) => srv.returns[1] \in {ListenError, ServeError}
    /\ (srv.returns # <<>> /\ srv.sent = 0) => srv.returns[1] \in {"nil", ShutdownError}

\* net.Listen failed and the error was sent before the interrupt, and Start
\* has returned nil from the shutdown; the error is still in the channel
C29_Witness ==
    /\ srv.early
    /\ srv.serverErr = <<ListenError>>
    /\ srv.returns = <<"nil">>

(***************************************************************************)
(* C30.  A step of the server changes at most the store entry of the id    *)
(* of the request it serves: a POST answered 201 adds one entry under a    *)
(* new id, a PUT answered 200 keeps the keys and changes no entry but the  *)
(* one of the id in its path, a DELETE answered 204 removes the entry of   *)
(* the id in its path and no other, and every other step (a GET, the       *)
(* health check, a request answered 4xx or 5xx, the lookup of a PUT)       *)
(* leaves every entry as it was.                                           *)
(***************************************************************************)
C30_Others(keep) == \A x \in keep : x \in DOMAIN blogs' /\ StoreViewNext[x] = StoreView[x]

====
